---- MODULE Spec2Model ----
(***************************************************************************)
(* Lead-enrichment pipeline: snapshot lifecycle (GS_enricher_main.main,    *)
(* process_profile_snapshots / process_company_snapshots,                  *)
(* process_snapshot_file, update_google_sheet) and the persisted job state *)
(* sets, as a state machine with process kill and restart.                 *)
(*                                                                         *)
(* Spec      : the snapshot lifecycle.  The main sheet is seen through the *)
(*             outcome of each record of a merge (written, skipped,        *)
(*             raised).                                                    *)
(* FairSpec  : Spec with fairness of the program's own steps.              *)
(* RecoverSpec : FairSpec with a program that is started again after it    *)
(*             has ended.                                                  *)
(* MergeSpec : update_google_sheet on the cells of the main worksheet, one *)
(*             call after another, over a catalogue of payloads, and then  *)
(*             update_lead_scores on the worksheet they leave.             *)
(* SimilarSpec : update_similar_profiles and update_similar_companies on   *)
(*             the rows of the two satellite worksheets.                   *)
(* ScoreSpec : update_lead_scores on worksheets with and without a         *)
(*             lead_score column.                                          *)
(* SubmitSpec : process_links_with_bright_data, chunk by chunk and request *)
(*             by request.                                                 *)
(* BatchSpec : the header writes, batch writes and delays of one           *)
(*             update_google_sheet call.                                   *)
(* PendingSpec : process_pending_updates on the files a run can leave.     *)
(* FormatSpec : format_value and format_company_value on nested values.    *)
(* LinkSpec  : read_google_sheet's company links and the company merge of   *)
(*             the records returned for them.                              *)
(***************************************************************************)
EXTENDS Integers, Sequences, FiniteSets, TLC

VARIABLES
    pc,                  \* position of the process in main() and its callees
    is_company,          \* the is_company argument of the running poll loop
    jobs,                \* job service: jobs[id] is a job's dataset and status
    processedFile,       \* processed_{profile,company}_snapshots.json
    updatedFile,         \* updated_{profile,company}_snapshots.json
    payloadFiles,        \* {profile,company}_snapshots/<id>.json
    processed_snapshots, \* the poll loop's in-memory set
    snapshots,           \* the last listing get_snapshots returned
    ready_snapshots,     \* the part of the for loop's list not yet visited
    running_snapshots,   \* the running ids of the current iteration
    snapshot_id,         \* the job the for loop is at (0: none)
    recIdx,              \* update_google_sheet: records handled by this call
    retries,             \* depth of update_google_sheet's recursive retries
    listed,              \* whether this run has called get_snapshots yet
    mergedThisRun,       \* jobs update_google_sheet was called for, this run
    lastOp,              \* the operation the last step performed
    interrupted,         \* jobs killed between payload write and merge end
    sheet,               \* the main worksheet
    resolutions,         \* every <<column name, column index>> resolved so far
    similar_sheets,      \* the worksheets 'Similar Leads', 'Similar Companies'
    chunks,              \* process_links_with_bright_data: chunks of clean_links
    chunk_i,             \* the chunk the for loop is at (0: none)
    retry_count,         \* the while loop's retry_count for that chunk
    submitted,           \* the requests.post and time.sleep calls made so far
    batch,               \* update_google_sheet: the writes of one call, cell by cell
    pending_snapshots,   \* process_pending_updates: the payload files still to merge
    json_value,          \* a field value of a record, as the JSON payload holds it
    formatted_value      \* what format_value made of it

lifeVars == <<pc, is_company, jobs, processedFile, updatedFile, payloadFiles,
              processed_snapshots, snapshots, ready_snapshots,
              running_snapshots, snapshot_id, recIdx, retries, listed,
              mergedThisRun, lastOp, interrupted>>

sheetVars == <<sheet, resolutions, similar_sheets>>

submitVars == <<chunks, chunk_i, retry_count, submitted>>

batchVars == <<batch>>

pendingVars == <<pending_snapshots>>

formatVars == <<json_value, formatted_value>>

vars == <<lifeVars, sheetVars, submitVars, batchVars, pendingVars,
          formatVars>>

----------------------------------------------------------------------------
\* Bounds of the model.

\* Jobs (snapshots) the job service holds, over both datasets.
MaxJobs == 2
\* Records in one snapshot payload.
PayloadLen == 2
\* Quota-exceeded errors one merge may meet (depth of the recursive retry).
MaxRetries == 2

\* A call of the worksheet made by update_google_sheet: "update_cell" (the
\* header of a new column), "batch_update" with n cells, "sleep" for n tenths
\* of a second, or none so far; odd tells one call from the call before it.
NoCall == [call |-> "none", n |-> 0, odd |-> FALSE]

\* No update_google_sheet is writing.
NoBatch == [pc |-> "idle", records |-> 0, fields |-> 0, update_data |-> 0,
            pending |-> 0, cell_updates |-> 0, last |-> NoCall]

\* No value has been formatted: a text format_value does not produce.
NotFormatted == <<"<unset>">>

\* Columns of the main worksheet.
MaxCols == 6

JobIds == 1..MaxJobs
Kinds == {FALSE, TRUE}      \* the values of is_company

NoOp == [op |-> "none", company |-> FALSE, id |-> 0]

Op(name) == [op |-> name, company |-> is_company, id |-> snapshot_id]

\* The ids of a listing, in listing order, that satisfy a status test.
RECURSIVE SelectIds(_, _, _)
SelectIds(list, statuses, excluded) ==
    IF list = <<>> THEN <<>>
    ELSE LET s == Head(list)
             rest == SelectIds(Tail(list), statuses, excluded)
         IN IF s.status \in statuses /\ s.id \notin excluded
            THEN <<s.id>> \o rest ELSE rest

NoJob == [status |-> "none", company |-> FALSE]

\* The job service's answer to list(dataset_id, from_date): every job of the
\* dataset created inside the lookback window, in creation order.
RECURSIVE ListingFrom(_, _)
ListingFrom(k, id) ==
    IF id > MaxJobs THEN <<>>
    ELSE IF jobs[id].status = "none" \/ jobs[id].company # k
         THEN ListingFrom(k, id + 1)
    ELSE <<[id |-> id, status |-> jobs[id].status]>> \o ListingFrom(k, id + 1)

Listing(k) == ListingFrom(k, 1)

Range(s) == {s[i] : i \in 1..Len(s)}

----------------------------------------------------------------------------
\* Text.  A string is a sequence of characters; a multi-letter token such as
\* "link:" or "acme" stands for the run of characters it spells, and no
\* string of the model spells a token in any other way.

EmptyStr == <<>>

Max(a, b) == IF a >= b THEN a ELSE b

\* list.index(x) + 1, 0 standing for ValueError.
IndexOf(seq, x) ==
    IF \E i \in 1..Len(seq) : seq[i] = x
    THEN CHOOSE i \in 1..Len(seq) :
             seq[i] = x /\ \A j \in 1..(i - 1) : seq[j] # x
    ELSE 0

\* s.split(sep)[0]
BeforeFirst(s, sep) ==
    IF IndexOf(s, sep) = 0 THEN s ELSE SubSeq(s, 1, IndexOf(s, sep) - 1)

\* s.split(sep)
RECURSIVE Split(_, _)
Split(s, sep) ==
    IF IndexOf(s, sep) = 0 THEN <<s>>
    ELSE <<SubSeq(s, 1, IndexOf(s, sep) - 1)>>
             \o Split(SubSeq(s, IndexOf(s, sep) + 1, Len(s)), sep)

\* s.rstrip(ch): every trailing ch is removed.
RECURSIVE RStrip(_, _)
RStrip(s, ch) ==
    IF s # <<>> /\ s[Len(s)] = ch THEN RStrip(SubSeq(s, 1, Len(s) - 1), ch)
    ELSE s

RECURSIVE LStrip(_, _)
LStrip(s, ch) ==
    IF s # <<>> /\ s[1] = ch THEN LStrip(Tail(s), ch) ELSE s

\* s.strip()
Strip(s) == LStrip(RStrip(s, " "), " ")

\* s.startswith(prefix)
StartsWith(s, prefix) ==
    Len(s) >= Len(prefix) /\ SubSeq(s, 1, Len(prefix)) = prefix

\* s.replace(sub, ''), for a non-empty sub
RECURSIVE Remove(_, _)
Remove(s, sub) ==
    IF s = <<>> THEN <<>>
    ELSE IF StartsWith(s, sub)
         THEN Remove(SubSeq(s, Len(sub) + 1, Len(s)), sub)
    ELSE <<Head(s)>> \o Remove(Tail(s), sub)

\* sep.join(parts)
RECURSIVE Join(_, _)
Join(parts, sep) ==
    IF parts = <<>> THEN <<>>
    ELSE IF Len(parts) = 1 THEN parts[1]
    ELSE parts[1] \o sep \o Join(Tail(parts), sep)

----------------------------------------------------------------------------
\* JSON values of a scraped record: <<"null">>, <<"str", text>>,
\* <<"list", items>>, <<"dict", <<key, value>> pairs in order>>.

Null == <<"null">>
Str(t) == <<"str", t>>
List(items) == <<"list", items>>
Dict(pairs) == <<"dict", pairs>>

IsNested(v) == v[1] \in {"list", "dict"}

\* dict.get(key): the value of the first pair with that key, else None.
Get(pairs, key) ==
    IF \E i \in 1..Len(pairs) : pairs[i][1] = key
    THEN pairs[CHOOSE i \in 1..Len(pairs) :
                   pairs[i][1] = key /\ \A j \in 1..(i - 1) : pairs[j][1] # key][2]
    ELSE Null

\* Python's repr(value), as str() of a list or dict spells its elements.
RECURSIVE py_repr(_)
py_repr(v) ==
    CASE v[1] = "null" -> <<"None">>
      [] v[1] = "str" -> <<"'">> \o v[2] \o <<"'">>
      [] v[1] = "list" ->
            <<"[">> \o Join([i \in 1..Len(v[2]) |-> py_repr(v[2][i])],
                            <<",", " ">>) \o <<"]">>
      [] v[1] = "dict" ->
            <<"{">> \o Join([i \in 1..Len(v[2]) |->
                                <<"'", v[2][i][1], "'", ":", " ">>
                                    \o py_repr(v[2][i][2])],
                            <<",", " ">>) \o <<"}">>

\* Mutant: a text is rendered with its quotes, as repr does.
py_str_quoted(v) == py_repr(v)

\* Python's str(value).
py_str(v) ==
    CASE v[1] = "null" -> <<"None">>
      [] v[1] = "str" -> v[2]
      [] OTHER -> py_repr(v)

\* format_value (and format_company_value, the same code).
RECURSIVE format_value(_)
format_value(value) ==
    LET \* f"{k}: {v}" with v formatted first when it is a list or a dict
        Pair(kv) == <<kv[1], ":", " ">>
                        \o (IF IsNested(kv[2]) THEN format_value(kv[2])
                            ELSE py_str(kv[2]))
        DictText(pairs) ==
            Join([i \in 1..Len(pairs) |-> Pair(pairs[i])], <<" ", "|", " ">>)
        Item(item) ==
            IF item[1] = "dict" THEN DictText(item[2]) ELSE py_str(item)
    IN CASE value[1] = "null" -> EmptyStr
         [] value[1] = "list" ->
               Join([i \in 1..Len(value[2]) |-> Item(value[2][i])], <<",", " ">>)
         [] value[1] = "dict" -> DictText(value[2])
         [] OTHER -> py_str(value)

format_company_value(value) == format_value(value)

----------------------------------------------------------------------------
\* The main worksheet: a sequence of rows, each a sequence of cell texts, all
\* of one width; row 1 holds the headers.

Width(sh) == Len(sh[1])

\* The last column that holds a non-empty cell.
LastUsedCol(sh) ==
    LET used == {c \in 1..Width(sh) : \E r \in 1..Len(sh) : sh[r][c] # EmptyStr}
    IN IF used = {} THEN 0 ELSE CHOOSE c \in used : \A d \in used : d <= c

\* worksheet.get_all_values(): the cells up to the last non-empty column,
\* every row filled to that width.
get_all_values(sh) == [r \in 1..Len(sh) |-> SubSeq(sh[r], 1, LastUsedCol(sh))]

\* worksheet.col_values(col), 1-based.
col_values(sh, col) ==
    [r \in 1..Len(sh) |-> IF col <= Width(sh) THEN sh[r][col] ELSE EmptyStr]

\* worksheet.update_cell(row, col, value), and one cell of a batch_update.
update_cell(sh, row, col, value) ==
    [r \in 1..Len(sh) |->
        [c \in 1..Max(Width(sh), col) |->
            IF r = row /\ c = col THEN value
            ELSE IF c <= Width(sh) THEN sh[r][c] ELSE EmptyStr]]

\* config: GOOGLE_SHEETS['column_with_links']
column_with_links == <<"linkedin_person_url">>

\* get_column_order(): the priority of a profile field.
get_column_order ==
    [name |-> 1, position |-> 2, city |-> 3, country_code |-> 4,
     current_company_company_id |-> 5, current_company |-> 6, about |-> 7,
     experience |-> 8,
     company |-> 100, company_size |-> 101, company_industry |-> 102,
     company_website |-> 103, company_description |-> 104,
     company_founded |-> 105, company_specialties |-> 106,
     headline |-> 200, summary |-> 201, skills |-> 202, education |-> 203,
     languages |-> 204, certifications |-> 205, volunteer_experience |-> 206,
     recommendations |-> 207, connections |-> 208,
     email |-> 300, phone |-> 301, twitter |-> 302, website |-> 303,
     other |-> 1000]

\* get_company_column_order(): the priority of a company field.
get_company_column_order ==
    [name |-> 1, country_code |-> 2, locations |-> 3, followers |-> 4,
     employees_in_linkedin |-> 5, about |-> 6, company_size |-> 7,
     organization_type |-> 8, industries |-> 9, website |-> 10,
     crunchbase_url |-> 11, founded |-> 12, company_id |-> 13,
     headquarters |-> 14, slogan |-> 15, description |-> 16,
     website_simplified |-> 17,
     employees |-> 100, similar |-> 101, updates |-> 102, funding |-> 103,
     investors |-> 104, formatted_locations |-> 105,
     other |-> 1000]

----------------------------------------------------------------------------
\* update_google_sheet, as the code computes it on a worksheet.  A record is
\* the sequence of its <<key, value>> pairs in the order of the JSON object.

\* "startswith('link:')" / "startswith('company_id:')" and the URL built from
\* a company id.
LinkPrefix == <<"link", ":">>
CompanyIdPrefix == <<"company_id", ":">>
CompanyUrlBase == <<"https://www.linkedin.com/company", "/">>

\* "url.split('?')[0].rstrip('/')"
normalize_url(url) == RStrip(BeforeFirst(url, "?"), "/")

\* Lines 376-389: the URLs one current_company cell stands for, part by part
\* (a part that is neither a link nor a company id stands for none).
part_urls(company_value) ==
    LET parts == Split(company_value, "|")
        Url(raw) ==
            LET part == Strip(raw)
            IN IF StartsWith(part, LinkPrefix)
               THEN {normalize_url(Strip(Remove(part, LinkPrefix)))}
               ELSE IF StartsWith(part, CompanyIdPrefix)
               THEN {CompanyUrlBase \o Strip(Remove(part, CompanyIdPrefix))}
               ELSE {}
    IN UNION {Url(parts[i]) : i \in 1..Len(parts)}

\* The smallest member of a non-empty set of numbers.
Min(S) == CHOOSE x \in S : \A y \in S : x <= y

\* Mutant: the last matching row is taken instead of the first.
find_company_row_last(sh, headers, data) ==
    LET input == Get(data, "input")
        raw == IF input[1] = "dict" THEN Get(input[2], "url") ELSE Null
        company_url == normalize_url(raw[2])
        company_col == IndexOf(headers, <<"current_company">>)
        company_values == col_values(sh, company_col)
        matching == {i \in 2..Len(company_values) :
                        /\ company_values[i] # EmptyStr
                        /\ company_url \in part_urls(company_values[i])}
    IN IF raw[1] # "str" \/ raw[2] = EmptyStr THEN [found |-> "skip", row |-> 0]
       ELSE IF company_col = 0 THEN [found |-> "skip", row |-> 0]
       ELSE IF matching = {} THEN [found |-> "skip", row |-> 0]
       ELSE [found |-> "row",
             row |-> CHOOSE i \in matching : \A j \in matching : j <= i]

\* Lines 350-395: the row of a company record.  "skip" stands for continue.
find_company_row(sh, headers, data) ==
    LET input == Get(data, "input")
        raw == IF input[1] = "dict" THEN Get(input[2], "url") ELSE Null
        company_url == normalize_url(raw[2])
        company_col == IndexOf(headers, <<"current_company">>)
        company_values == col_values(sh, company_col)
        matching == {i \in 2..Len(company_values) :
                        /\ company_values[i] # EmptyStr
                        /\ company_url \in part_urls(company_values[i])}
    IN IF raw[1] # "str" \/ raw[2] = EmptyStr THEN [found |-> "skip", row |-> 0]
       ELSE IF company_col = 0 THEN [found |-> "skip", row |-> 0]
       ELSE IF matching = {} THEN [found |-> "skip", row |-> 0]
       ELSE [found |-> "row", row |-> Min(matching)]

\* Mutant: the URLs are compared after normalization.
find_profile_row_normalized(sh, headers, data) ==
    LET input_url == Get(data, "input_url")
        url_column_index == IndexOf(headers, column_with_links)
        urls == col_values(sh, url_column_index)
        normalized == [r \in 1..Len(urls) |-> normalize_url(urls[r])]
    IN IF input_url[1] # "str" \/ input_url[2] = EmptyStr
       THEN [found |-> "skip", row |-> 0]
       ELSE IF url_column_index = 0 THEN [found |-> "raise", row |-> 0]
       ELSE IF IndexOf(normalized, normalize_url(input_url[2])) = 0
       THEN [found |-> "skip", row |-> 0]
       ELSE [found |-> "row",
             row |-> IndexOf(normalized, normalize_url(input_url[2]))]

\* Lines 396-412: the row of a profile record.  headers.index raises
\* ValueError when the link column is missing, which ends the merge call.
find_profile_row(sh, headers, data) ==
    LET input_url == Get(data, "input_url")
        url_column_index == IndexOf(headers, column_with_links)
        urls == col_values(sh, url_column_index)
    IN IF input_url[1] # "str" \/ input_url[2] = EmptyStr
       THEN [found |-> "skip", row |-> 0]
       ELSE IF url_column_index = 0 THEN [found |-> "raise", row |-> 0]
       ELSE IF IndexOf(urls, input_url[2]) = 0 THEN [found |-> "skip", row |-> 0]
       ELSE [found |-> "row", row |-> IndexOf(urls, input_url[2])]

\* Line 421: the keys the field loop passes over.
SkippedKeys == {"input", "url", "similar_profiles", "people_also_viewed"}

\* Mutant: the key is the column name in both modes.
field_name_unprefixed(key, company) == <<key>>

\* Lines 427-429: the column name of a field.
field_name(key, company) == IF company THEN <<"enriched_", key>> ELSE <<key>>

\* "key in column_order", and "column_order[key]".
column_order(company) ==
    IF company THEN get_company_column_order ELSE get_column_order
in_column_order(name, company) ==
    Len(name) = 1 /\ name[1] \in DOMAIN column_order(company)
priority(name, company) == column_order(company)[name[1]]

\* Lines 419-435: the <<column name, formatted value>> of every field kept.
RECURSIVE record_fields(_, _)
record_fields(data, company) ==
    IF data = <<>> THEN <<>>
    ELSE LET key == Head(data)[1]
             value == IF company THEN format_company_value(Head(data)[2])
                      ELSE format_value(Head(data)[2])
             rest == record_fields(Tail(data), company)
         IN IF key \in SkippedKeys THEN rest
            ELSE <<<<field_name(key, company), value>>>> \o rest

\* Line 438: sorted(ordered_fields.items(), key=priority).
RECURSIVE sort_by_priority(_, _)
sort_by_priority(fields, company) ==
    IF fields = <<>> THEN <<>>
    ELSE LET first == CHOOSE i \in 1..Len(fields) :
                          \A j \in 1..Len(fields) :
                              \/ priority(fields[i][1], company)
                                     < priority(fields[j][1], company)
                              \/ (priority(fields[i][1], company)
                                     = priority(fields[j][1], company) /\ i <= j)
             others == [j \in 1..(Len(fields) - 1) |->
                           IF j < first THEN fields[j] ELSE fields[j + 1]]
         IN <<fields[first]>> \o sort_by_priority(others, company)

\* Lines 431-466: the order in which the fields of a record are resolved.
ordered_field_list(data, company) ==
    LET fields == record_fields(data, company)
        ordered == SelectSeq(fields, LAMBDA f : in_column_order(f[1], company))
        other == SelectSeq(fields, LAMBDA f : ~in_column_order(f[1], company))
    IN sort_by_priority(ordered, company) \o other

\* "update_data[col_index] = value": a dict keeps the place of a key it has.
dict_put(d, key, value) ==
    IF \E i \in 1..Len(d) : d[i][1] = key
    THEN [i \in 1..Len(d) |-> IF d[i][1] = key THEN <<key, value>> ELSE d[i]]
    ELSE Append(d, <<key, value>>)

\* Lines 441-466: every field is resolved to its column, a missing column
\* being added after the last header.  st holds the worksheet, the headers
\* list of the call, update_data and the resolutions made so far.
RECURSIVE resolve_columns(_, _)
resolve_columns(st, fields) ==
    IF fields = <<>> THEN st
    ELSE LET key == Head(fields)[1]
             found == IndexOf(st.headers, key)
             col_index == IF found # 0 THEN found ELSE Len(st.headers) + 1
         IN resolve_columns(
                [sheet |-> IF found # 0 THEN st.sheet
                           ELSE update_cell(st.sheet, 1, col_index, key),
                 headers |-> IF found # 0 THEN st.headers
                             ELSE Append(st.headers, key),
                 update_data |-> dict_put(st.update_data, col_index,
                                          Head(fields)[2]),
                 resolved |-> Append(st.resolved,
                                     [field |-> key, col |-> col_index,
                                      created |-> found = 0]),
                 written |-> st.written,
                 raised |-> st.raised],
                Tail(fields))

\* Lines 468-485: the cells of update_data are written to the record's row.
RECURSIVE write_cells(_, _, _)
write_cells(sh, row_index, update_data) ==
    IF update_data = <<>> THEN sh
    ELSE write_cells(update_cell(sh, row_index, Head(update_data)[1],
                                 Head(update_data)[2]),
                     row_index, Tail(update_data))

\* Mutant: a record with no row ends the loop.
RECURSIVE merge_records_until_missing(_, _, _)
merge_records_until_missing(st, snapshot_data, company) ==
    IF snapshot_data = <<>> \/ st.raised THEN st
    ELSE LET data == Head(snapshot_data)
             target == IF company
                       THEN find_company_row(st.sheet, st.headers, data)
                       ELSE find_profile_row(st.sheet, st.headers, data)
             res == resolve_columns([st EXCEPT !.update_data = <<>>],
                                    ordered_field_list(data, company))
         IN CASE target.found = "raise" -> [st EXCEPT !.raised = TRUE]
              [] target.found = "skip" -> st
              [] OTHER ->
                    merge_records_until_missing(
                        [res EXCEPT
                            !.sheet = write_cells(res.sheet, target.row,
                                                  res.update_data),
                            !.written = Append(@, target.row)],
                        Tail(snapshot_data), company)

\* Lines 349-487: "for data in snapshot_data".
RECURSIVE merge_records(_, _, _)
merge_records(st, snapshot_data, company) ==
    IF snapshot_data = <<>> \/ st.raised THEN st
    ELSE LET data == Head(snapshot_data)
             target == IF company
                       THEN find_company_row(st.sheet, st.headers, data)
                       ELSE find_profile_row(st.sheet, st.headers, data)
             res == resolve_columns([st EXCEPT !.update_data = <<>>],
                                    ordered_field_list(data, company))
         IN CASE target.found = "raise" -> [st EXCEPT !.raised = TRUE]
              [] target.found = "skip" ->
                    merge_records(st, Tail(snapshot_data), company)
              [] OTHER ->
                    merge_records(
                        [res EXCEPT
                            !.sheet = write_cells(res.sheet, target.row,
                                                  res.update_data),
                            !.written = Append(@, target.row)],
                        Tail(snapshot_data), company)

\* Lines 342-487: the whole merge of a payload into the worksheet sh.
merge(sh, snapshot_data, company) ==
    merge_records([sheet |-> get_all_values(sh),
                   headers |-> get_all_values(sh)[1],
                   update_data |-> <<>>,
                   resolved |-> <<>>,
                   written |-> <<>>,
                   raised |-> FALSE],
                  snapshot_data, company)

----------------------------------------------------------------------------
\* score_lead and update_lead_scores, as the code computes them.

\* A Python float: a finite value num/den (den a power of ten), or nan, inf,
\* -inf.  The int 0 that score_lead returns is the finite value 0/1.
Finite(num, den) == [k |-> "finite", num |-> num, den |-> den]
NaN == [k |-> "nan", num |-> 0, den |-> 1]
Infinity == [k |-> "inf", num |-> 0, den |-> 1]
NegInfinity == [k |-> "-inf", num |-> 0, den |-> 1]
ValueError == [k |-> "ValueError", num |-> 0, den |-> 1]

Digits == [c \in {"0", "1", "2", "3", "4", "5", "6", "7", "8", "9"} |->
              CASE c = "0" -> 0 [] c = "1" -> 1 [] c = "2" -> 2 [] c = "3" -> 3
                [] c = "4" -> 4 [] c = "5" -> 5 [] c = "6" -> 6 [] c = "7" -> 7
                [] c = "8" -> 8 [] c = "9" -> 9]

\* The value of a run of decimal digits read after the value acc.
RECURSIVE digits_value(_, _)
digits_value(s, acc) ==
    IF s = <<>> THEN acc
    ELSE digits_value(Tail(s), 10 * acc + Digits[Head(s)])

RECURSIVE Pow10(_)
Pow10(n) == IF n = 0 THEN 1 ELSE 10 * Pow10(n - 1)

AllDigits(s) == \A i \in 1..Len(s) : s[i] \in DOMAIN Digits

\* float(text) for the texts the model spells: surrounding blanks, a sign,
\* then nan, inf, or decimal digits with at most one point.
float(text) ==
    LET t == Strip(text)
        negative == t # <<>> /\ t[1] = "-"
        body == IF t # <<>> /\ t[1] \in {"-", "+"} THEN Tail(t) ELSE t
        point == IndexOf(body, ".")
        whole == IF point = 0 THEN body ELSE SubSeq(body, 1, point - 1)
        frac == IF point = 0 THEN <<>> ELSE SubSeq(body, point + 1, Len(body))
        sign == IF negative THEN -1 ELSE 1
    IN IF body = <<"nan">> THEN NaN
       ELSE IF body = <<"inf">> THEN (IF negative THEN NegInfinity ELSE Infinity)
       ELSE IF whole \o frac = <<>> \/ ~AllDigits(whole) \/ ~AllDigits(frac)
       THEN ValueError
       ELSE Finite(sign * digits_value(whole \o frac, 0), Pow10(Len(frac)))

\* a > b on floats: false as soon as one side is nan.
float_gt(a, b) ==
    CASE a.k = "nan" \/ b.k = "nan" -> FALSE
      [] a.k = "inf" -> b.k # "inf"
      [] a.k = "-inf" -> FALSE
      [] b.k = "inf" -> FALSE
      [] b.k = "-inf" -> TRUE
      [] OTHER -> a.num * b.den > b.num * a.den

\* Python's max(a, b) and min(a, b): the first argument unless the second is
\* strictly greater (smaller).
py_max(a, b) == IF float_gt(b, a) THEN b ELSE a
py_min(a, b) == IF float_gt(a, b) THEN b ELSE a

\* The outcome of openai.ChatCompletion.create for one row: a reply text, or
\* an exception of the call.
CompletionError == <<"APIError">>

\* score_lead, lines 841-852, on the outcome of the completion call.
score_lead(completion) ==
    IF completion = CompletionError THEN Finite(0, 1)
    ELSE LET score == float(Strip(completion))
         IN IF score = ValueError THEN Finite(0, 1)
            ELSE py_min(py_max(score, Finite(0, 1)), Finite(10, 1))

lead_score == <<"lead_score">>

\* worksheet.insert_cols([[header]], col): a column with that header and
\* empty cells below it is put at col; the columns from col on move right.
insert_cols(sh, header, col) ==
    [r \in 1..Len(sh) |->
        [c \in 1..(Max(Width(sh), col - 1) + 1) |->
            IF c < col THEN (IF c <= Width(sh) THEN sh[r][c] ELSE EmptyStr)
            ELSE IF c = col THEN (IF r = 1 THEN header ELSE EmptyStr)
            ELSE sh[r][c - 1]]]

\* worksheet.delete_columns(col, 1), when the sheet service carries it out
\* as the removal of the column at col: the columns after col move left.
delete_columns(sh, col) ==
    IF col > Width(sh) THEN sh
    ELSE [r \in 1..Len(sh) |->
             [c \in 1..(Width(sh) - 1) |->
                 IF c < col THEN sh[r][c] ELSE sh[r][c + 1]]]

\* list.insert(1, x)
list_insert_second(l, x) ==
    IF l = <<>> THEN <<x>> ELSE <<Head(l), x>> \o Tail(l)

\* list.remove(x): the first x is taken out.
list_remove(l, x) ==
    [i \in 1..(Len(l) - 1) |-> IF i < IndexOf(l, x) THEN l[i] ELSE l[i + 1]]

\* dict(zip(headers, row)).get(key, ''): the cell paired with the last header
\* equal to key, '' when no header is.
row_data_get(headers, row, key) ==
    LET n == IF Len(headers) <= Len(row) THEN Len(headers) ELSE Len(row)
        at == {i \in 1..n : headers[i] = key}
    IN IF at = {} THEN EmptyStr
       ELSE row[CHOOSE i \in at : \A j \in at : j <= i]

\* Lines 865-881: the lead_score column is ensured.  The worksheet and the
\* headers list after the step.  The call delete_columns(col, 1) is the
\* sheet library's: it removes the column at col (deleted), or the library
\* rejects its arguments and the call raises, which ends update_lead_scores
\* with the new column in place and the old one kept.
ensure_lead_score_column(sh, headers, deleted) ==
    LET lead_score_col == IndexOf(headers, lead_score)
    IN IF lead_score_col = 0
       THEN [sheet |-> insert_cols(sh, lead_score, 2),
             headers |-> list_insert_second(headers, lead_score),
             raised |-> FALSE]
       ELSE IF lead_score_col # 2
       THEN IF deleted
            THEN [sheet |-> delete_columns(insert_cols(sh, lead_score, 2),
                                           lead_score_col + 1),
                  headers |-> list_insert_second(
                                  list_remove(headers, lead_score), lead_score),
                  raised |-> FALSE]
            ELSE [sheet |-> insert_cols(sh, lead_score, 2),
                  headers |-> headers,
                  raised |-> TRUE]
       ELSE [sheet |-> sh, headers |-> headers, raised |-> FALSE]

\* The text of the cell a score is written to: the number, as num or num/den.
score_cell(score) ==
    IF score.den = 1 THEN <<ToString(score.num)>>
    ELSE <<ToString(score.num), "/", ToString(score.den)>>

\* LEAD_SCORING['fields'], in the order the prompt template names them.
LEAD_SCORING_fields ==
    << <<"position">>, <<"about">>, <<"enriched_website">>,
       <<"enriched_country_codes">>, <<"enriched_unformatted_about">>,
       <<"enriched_crunchbase_url">> >>

\* score_lead, lines 814-826: the six values row_data gives for the prompt.
field_values(headers, row) ==
    [f \in 1..Len(LEAD_SCORING_fields) |->
        row_data_get(headers, row, LEAD_SCORING_fields[f])]

\* Lines 884-897: the rows from row i on.  A row whose row_data has a
\* lead_score is passed over; a score the sheet service cannot take (nan)
\* raises, which ends update_lead_scores.  calls records, for every
\* completion call, the row it was made for and the values of its prompt.
RECURSIVE score_rows(_, _, _, _, _)
score_rows(st, all_data, headers, completions, i) ==
    IF i > Len(all_data) THEN st
    ELSE IF row_data_get(headers, all_data[i], lead_score) # EmptyStr
    THEN score_rows(st, all_data, headers, completions, i + 1)
    ELSE LET score == score_lead(completions[i])
             called == [st EXCEPT !.calls = Append(@,
                           [row |-> i,
                            prompt |-> field_values(headers, all_data[i])])]
         IN IF score.k # "finite" THEN [called EXCEPT !.raised = TRUE]
            ELSE score_rows(
                     [called EXCEPT
                         !.sheet = update_cell(@, i, 2, score_cell(score)),
                         !.written = Append(@, i)],
                     all_data, headers, completions, i + 1)

\* update_lead_scores on the worksheet sh, completions[i] being the outcome
\* of the completion call for row i, and deleted whether the sheet library
\* carries out delete_columns.
lead_scores(sh, completions, deleted) ==
    LET all_data == get_all_values(sh)
        ensured == ensure_lead_score_column(all_data, all_data[1], deleted)
        begun == [sheet |-> ensured.sheet, headers |-> ensured.headers,
                  calls |-> <<>>, written |-> <<>>, raised |-> ensured.raised]
    IN IF ensured.raised THEN begun
       ELSE score_rows(begun, all_data, ensured.headers, completions, 2)

----------------------------------------------------------------------------
\* update_similar_profiles and update_similar_companies, as the code computes
\* them.  A satellite worksheet is the sequence of its rows, <<>> when the
\* worksheet does not exist yet; a row is the sequence of its cells.

\* The text of a string value, '' for a missing one.
text_of(v) == IF v[1] = "str" THEN v[2] ELSE EmptyStr

\* The items of a list value, none for a missing one.
items_of(v) == IF v[1] = "list" THEN v[2] ELSE <<>>

similar_leads_headers == <<<<"linkedin_person_url">>, <<"name">>>>
similar_companies_headers ==
    <<<<"Company_url">>, <<"name">>, <<"industry">>, <<"location">>>>

\* Lines 132-141 and 507-517: the worksheet is created when it is missing,
\* and row 1 is written when its first cell is not the first header.
ensure_headers(ws, headers) ==
    IF ws = <<>> THEN <<headers>>
    ELSE IF ws[1][1] # headers[1] THEN [ws EXCEPT ![1] = headers]
    ELSE ws

\* "set(worksheet.col_values(1)[1:])"
existing_urls(ws) == {ws[r][1] : r \in 2..Len(ws)}

\* Mutant: the URLs seen earlier in the payload are not looked at.
is_new_url_seen_ignored(url, seen_urls, existing) ==
    url # EmptyStr /\ url \notin existing

\* "if url and url not in seen_urls and url not in existing_urls"
is_new_url(url, seen_urls, existing) ==
    url # EmptyStr /\ url \notin seen_urls /\ url \notin existing

\* The row of a stub: lines 162-166 (profiles), 531-543 (companies).
stub_row(similar, company) ==
    IF company
    THEN <<normalize_url(text_of(Get(similar[2], "Links"))),
           text_of(Get(similar[2], "title")),
           text_of(Get(similar[2], "subtitle")),
           text_of(Get(similar[2], "location"))>>
    ELSE <<text_of(Get(similar[2], "url")), text_of(Get(similar[2], "name"))>>

\* One "for similar in ..." loop over a list of stubs.
RECURSIVE collect_stubs(_, _, _, _)
collect_stubs(acc, stubs, existing, company) ==
    IF stubs = <<>> THEN acc
    ELSE LET row == stub_row(Head(stubs), company)
         IN collect_stubs(
                IF is_new_url(row[1], acc.seen_urls, existing)
                THEN [rows_to_update |-> Append(acc.rows_to_update, row),
                      seen_urls |-> acc.seen_urls \cup {row[1]}]
                ELSE acc,
                Tail(stubs), existing, company)

\* "for profile in snapshot_data" (lines 152-175) and "for company in
\* snapshot_data" (lines 528-543).
RECURSIVE collect_rows(_, _, _, _)
collect_rows(acc, snapshot_data, existing, company) ==
    IF snapshot_data = <<>> THEN acc
    ELSE LET data == Head(snapshot_data)
             rest == Tail(snapshot_data)
         IN IF company
            THEN collect_rows(
                     collect_stubs(acc, items_of(Get(data, "similar")),
                                   existing, TRUE),
                     rest, existing, TRUE)
            ELSE IF text_of(Get(data, "input_url")) = EmptyStr
            THEN collect_rows(acc, rest, existing, FALSE)
            ELSE collect_rows(
                     collect_stubs(
                         collect_stubs(acc,
                                       items_of(Get(data, "similar_profiles")),
                                       existing, FALSE),
                         items_of(Get(data, "people_also_viewed")),
                         existing, FALSE),
                     rest, existing, FALSE)

\* The worksheet after the call: the new rows are written below the last row.
append_new_rows(ws, snapshot_data, company) ==
    ws \o collect_rows([rows_to_update |-> <<>>, seen_urls |-> {}],
                       snapshot_data, existing_urls(ws), company).rows_to_update

update_similar_profiles(ws, snapshot_data) ==
    append_new_rows(ensure_headers(ws, similar_leads_headers),
                    snapshot_data, FALSE)

update_similar_companies(ws, snapshot_data) ==
    append_new_rows(ensure_headers(ws, similar_companies_headers),
                    snapshot_data, TRUE)

----------------------------------------------------------------------------
\* The state after construction: nothing submitted, no state file, no payload.

LifeInit ==
    /\ pc = "main"
    /\ is_company = FALSE
    /\ jobs = [id \in JobIds |-> NoJob]
    /\ processedFile = [k \in Kinds |-> {}]
    /\ updatedFile = [k \in Kinds |-> {}]
    /\ payloadFiles = [k \in Kinds |-> {}]
    /\ processed_snapshots = {}
    /\ snapshots = <<>>
    /\ ready_snapshots = <<>>
    /\ running_snapshots = {}
    /\ snapshot_id = 0
    /\ recIdx = 0
    /\ retries = 0
    /\ listed = FALSE
    /\ mergedThisRun = {}
    /\ lastOp = NoOp
    /\ interrupted = {}
    /\ chunks = 0
    /\ chunk_i = 0
    /\ retry_count = 0
    /\ submitted = <<>>
    /\ batch = NoBatch
    /\ pending_snapshots = <<>>
    /\ json_value = Null
    /\ formatted_value = NotFormatted

\* The worksheet of the lifecycle: seen only through the outcome of a merge.
Init ==
    /\ LifeInit
    /\ sheet = <<<<column_with_links>>>>
    /\ resolutions = {}
    /\ similar_sheets = [k \in Kinds |-> <<>>]

\* What every step leaves alone unless it says otherwise.
files == <<processedFile, updatedFile, payloadFiles>>
loopVars == <<processed_snapshots, snapshots, ready_snapshots,
              running_snapshots, snapshot_id>>
mergeVars == <<recIdx, retries>>

\* The process's memory is gone once it has ended.
ProcessEnds ==
    /\ pc' = "ended"
    /\ is_company' = FALSE
    /\ processed_snapshots' = {}
    /\ snapshots' = <<>>
    /\ ready_snapshots' = <<>>
    /\ running_snapshots' = {}
    /\ snapshot_id' = 0
    /\ recIdx' = 0
    /\ retries' = 0

----------------------------------------------------------------------------
\* GS_enricher_main.main

\* An exception that no function catches reaches main's "except Exception":
\* it is printed and the run ends.
raises_to_main(op) ==
    /\ ProcessEnds
    /\ lastOp' = [op |-> op, company |-> is_company, id |-> 0]

\* read_profile_links, lines 234-237: the sheet has no column_with_links.
link_column_absent == raises_to_main("missing_link_column")

\* Mutant: the missing dataset id is not raised, the function returns.
dataset_id_absent_ignored ==
    /\ pc' = "load"
    /\ lastOp' = [op |-> "missing_dataset_id", company |-> is_company,
                  id |-> 0]
    /\ UNCHANGED <<is_company, loopVars, mergeVars>>

\* process_links_with_bright_data, lines 146-148: the configuration has no
\* dataset id for the kind.
dataset_id_absent == raises_to_main("missing_dataset_id")

\* read_google_sheet, lines 82-85: the sheet has no current_company column;
\* the function returns [] and main goes on to the scoring.
company_column_absent ==
    /\ is_company' = FALSE
    /\ pc' = "score"
    /\ lastOp' = [op |-> "missing_company_column", company |-> FALSE,
                  id |-> 0]

\* main: read_profile_links, then the profile submission.
read_profile_links ==
    /\ pc = "main"
    /\ UNCHANGED <<sheetVars, submitVars, batchVars, pendingVars, formatVars>>
    /\ \/ /\ pc' = "submit"
          /\ is_company' = FALSE
          /\ lastOp' = NoOp
          /\ UNCHANGED <<loopVars, mergeVars>>
       \/ link_column_absent
    /\ UNCHANGED <<jobs, files, listed, mergedThisRun, interrupted>>

\* process_links_with_bright_data: a chunk the job service accepts becomes a
\* running job; a chunk abandoned after its retries (or no link at all)
\* leaves the job service as it was; a missing dataset id raises.
process_links_with_bright_data ==
    /\ pc = "submit"
    /\ UNCHANGED <<sheetVars, submitVars, batchVars, pendingVars, formatVars>>
    /\ \/ /\ \E id \in JobIds :
               /\ jobs[id] = NoJob
               /\ \A other \in JobIds : other < id => jobs[other] # NoJob
               /\ jobs' = [jobs EXCEPT ![id] = [status |-> "running",
                                                company |-> is_company]]
          /\ pc' = "load"
          /\ lastOp' = NoOp
          /\ UNCHANGED <<is_company, loopVars, mergeVars>>
       \/ /\ UNCHANGED jobs
          /\ pc' = "load"
          /\ lastOp' = NoOp
          /\ UNCHANGED <<is_company, loopVars, mergeVars>>
       \/ /\ dataset_id_absent
          /\ UNCHANGED jobs
    /\ UNCHANGED <<files, listed, mergedThisRun, interrupted>>

\* main after process_profile_snapshots: read_google_sheet, then either the
\* company submission or, with no company link or no current_company
\* column, the scoring.
read_google_sheet ==
    /\ pc = "poll_done"
    /\ UNCHANGED <<sheetVars, submitVars, batchVars, pendingVars, formatVars>>
    /\ ~is_company
    /\ \/ /\ is_company' = TRUE
          /\ pc' = "submit"
          /\ lastOp' = NoOp
       \/ /\ is_company' = FALSE
          /\ pc' = "score"
          /\ lastOp' = NoOp
       \/ company_column_absent
    /\ UNCHANGED <<jobs, files, loopVars, mergeVars, listed, mergedThisRun,
                   interrupted>>

\* main after process_company_snapshots.
company_poll_returns ==
    /\ pc = "poll_done"
    /\ UNCHANGED <<sheetVars, submitVars, batchVars, pendingVars, formatVars>>
    /\ is_company
    /\ pc' = "score"
    /\ lastOp' = NoOp
    /\ UNCHANGED <<is_company, jobs, files, loopVars, mergeVars, listed,
                   mergedThisRun, interrupted>>

\* main: update_lead_scores, then the end of the run.
update_lead_scores ==
    /\ pc = "score"
    /\ UNCHANGED <<sheetVars, submitVars, batchVars, pendingVars, formatVars>>
    /\ ProcessEnds
    /\ lastOp' = [op |-> "score", company |-> FALSE, id |-> 0]
    /\ UNCHANGED <<jobs, files, listed, mergedThisRun, interrupted>>

----------------------------------------------------------------------------
\* process_profile_snapshots / process_company_snapshots

\* The load before the loop.
load_processed_snapshots ==
    /\ pc = "load"
    /\ UNCHANGED <<sheetVars, submitVars, batchVars, pendingVars, formatVars>>
    /\ processed_snapshots' = processedFile[is_company]
    /\ pc' = "list"
    /\ lastOp' = NoOp
    /\ UNCHANGED <<is_company, jobs, files, snapshots, ready_snapshots,
                   running_snapshots, snapshot_id, mergeVars, listed,
                   mergedThisRun, interrupted>>

\* get_snapshots: the listing, [] on a status other than 200, or an exception
\* of the request, which main catches and ends the run on.
get_snapshots ==
    /\ pc = "list"
    /\ UNCHANGED <<sheetVars, submitVars, batchVars, pendingVars, formatVars>>
    /\ listed' = TRUE
    /\ lastOp' = [op |-> "list", company |-> is_company, id |-> 0]
    /\ \/ /\ snapshots' = Listing(is_company)
          /\ pc' = "filter"
          /\ UNCHANGED <<is_company, processed_snapshots, ready_snapshots,
                         running_snapshots, snapshot_id, mergeVars>>
       \/ /\ snapshots' = <<>>
          /\ pc' = "filter"
          /\ UNCHANGED <<is_company, processed_snapshots, ready_snapshots,
                         running_snapshots, snapshot_id, mergeVars>>
       \/ ProcessEnds
    /\ UNCHANGED <<jobs, files, mergedThisRun, interrupted>>

AllStatuses == {"running", "ready", "failed"}
new_snapshots == SelectIds(snapshots, AllStatuses, processed_snapshots)
ready_now == SelectIds(snapshots, {"ready"}, processed_snapshots)
running_now == SelectIds(snapshots, {"running"}, processed_snapshots)

\* "if not snapshots: sleep(30); continue"
wait_no_snapshots ==
    /\ pc = "filter"
    /\ UNCHANGED <<sheetVars, submitVars, batchVars, pendingVars, formatVars>>
    /\ snapshots = <<>>
    /\ pc' = "list"
    /\ lastOp' = NoOp
    /\ UNCHANGED <<is_company, jobs, files, loopVars, mergeVars, listed,
                   mergedThisRun, interrupted>>

\* "if not new_snapshots: sleep(30); continue"
wait_no_new_snapshots ==
    /\ pc = "filter"
    /\ UNCHANGED <<sheetVars, submitVars, batchVars, pendingVars, formatVars>>
    /\ snapshots # <<>>
    /\ new_snapshots = <<>>
    /\ pc' = "list"
    /\ lastOp' = NoOp
    /\ UNCHANGED <<is_company, jobs, files, loopVars, mergeVars, listed,
                   mergedThisRun, interrupted>>

\* "if not ready_snapshots: sleep(30); continue"
wait_no_ready_snapshots ==
    /\ pc = "filter"
    /\ UNCHANGED <<sheetVars, submitVars, batchVars, pendingVars, formatVars>>
    /\ new_snapshots # <<>>
    /\ ready_now = <<>>
    /\ pc' = "list"
    /\ lastOp' = NoOp
    /\ UNCHANGED <<is_company, jobs, files, loopVars, mergeVars, listed,
                   mergedThisRun, interrupted>>

\* The for loop over ready_snapshots begins.
begin_ready_snapshots ==
    /\ pc = "filter"
    /\ UNCHANGED <<sheetVars, submitVars, batchVars, pendingVars, formatVars>>
    /\ ready_now # <<>>
    /\ ready_snapshots' = ready_now
    /\ running_snapshots' = Range(running_now)
    /\ pc' = "for"
    /\ lastOp' = NoOp
    /\ UNCHANGED <<is_company, jobs, files, processed_snapshots, snapshots,
                   snapshot_id, mergeVars, listed, mergedThisRun, interrupted>>

\* Mutant: the for loop visits the list from its end.
next_ready_snapshot_last ==
    /\ pc = "for"
    /\ UNCHANGED <<sheetVars, submitVars, batchVars, pendingVars, formatVars>>
    /\ ready_snapshots # <<>>
    /\ snapshot_id' = ready_snapshots[Len(ready_snapshots)]
    /\ ready_snapshots' = SubSeq(ready_snapshots, 1, Len(ready_snapshots) - 1)
    /\ pc' = "download"
    /\ lastOp' = NoOp
    /\ UNCHANGED <<is_company, jobs, files, processed_snapshots, snapshots,
                   running_snapshots, mergeVars, listed, mergedThisRun,
                   interrupted>>

\* "for snapshot in ready_snapshots"
next_ready_snapshot ==
    /\ pc = "for"
    /\ UNCHANGED <<sheetVars, submitVars, batchVars, pendingVars, formatVars>>
    /\ ready_snapshots # <<>>
    /\ snapshot_id' = Head(ready_snapshots)
    /\ ready_snapshots' = Tail(ready_snapshots)
    /\ pc' = "download"
    /\ lastOp' = NoOp
    /\ UNCHANGED <<is_company, jobs, files, processed_snapshots, snapshots,
                   running_snapshots, mergeVars, listed, mergedThisRun,
                   interrupted>>

\* download_snapshot: fetch(job_id); on 200 the payload file is written.
download_snapshot ==
    /\ pc = "download"
    /\ UNCHANGED <<sheetVars, submitVars, batchVars, pendingVars, formatVars>>
    /\ lastOp' = Op("fetch")
    /\ \/ /\ payloadFiles' = [payloadFiles EXCEPT
                                 ![is_company] = @ \cup {snapshot_id}]
          /\ pc' = "process_file"
          /\ UNCHANGED <<is_company, loopVars, mergeVars>>
       \/ /\ pc' = "for"
          /\ UNCHANGED <<is_company, payloadFiles, loopVars, mergeVars>>
       \/ /\ ProcessEnds
          /\ UNCHANGED payloadFiles
    /\ UNCHANGED <<jobs, processedFile, updatedFile, listed, mergedThisRun,
                   interrupted>>

\* "processed_snapshots.add(snapshot_id)"
add_processed ==
    /\ pc = "add_processed"
    /\ UNCHANGED <<sheetVars, submitVars, batchVars, pendingVars, formatVars>>
    /\ processed_snapshots' = processed_snapshots \cup {snapshot_id}
    /\ pc' = "save_processed"
    /\ lastOp' = NoOp
    /\ UNCHANGED <<is_company, jobs, files, snapshots, ready_snapshots,
                   running_snapshots, snapshot_id, mergeVars, listed,
                   mergedThisRun, interrupted>>

\* Mutant: the file is rewritten once the for loop has visited every job.
save_processed_snapshots_batched ==
    /\ pc = "save_processed"
    /\ UNCHANGED <<sheetVars, submitVars, batchVars, pendingVars, formatVars>>
    /\ processedFile' = IF ready_snapshots = <<>>
                        THEN [processedFile EXCEPT
                                 ![is_company] = processed_snapshots]
                        ELSE processedFile
    /\ pc' = "for"
    /\ lastOp' = Op("save_processed")
    /\ UNCHANGED <<is_company, jobs, updatedFile, payloadFiles, loopVars,
                   mergeVars, listed, mergedThisRun, interrupted>>

\* save_processed_snapshots: the file is rewritten from the in-memory set.
save_processed_snapshots ==
    /\ pc = "save_processed"
    /\ UNCHANGED <<sheetVars, submitVars, batchVars, pendingVars, formatVars>>
    /\ processedFile' = [processedFile EXCEPT
                            ![is_company] = processed_snapshots]
    /\ pc' = "for"
    /\ lastOp' = Op("save_processed")
    /\ UNCHANGED <<is_company, jobs, updatedFile, payloadFiles, loopVars,
                   mergeVars, listed, mergedThisRun, interrupted>>

\* After the for loop: "if not running_snapshots: break", else sleep(30).
after_ready_snapshots ==
    /\ pc = "for"
    /\ UNCHANGED <<sheetVars, submitVars, batchVars, pendingVars, formatVars>>
    /\ ready_snapshots = <<>>
    /\ pc' = IF running_snapshots = {} THEN "poll_done" ELSE "list"
    /\ lastOp' = NoOp
    /\ UNCHANGED <<is_company, jobs, files, loopVars, mergeVars, listed,
                   mergedThisRun, interrupted>>

----------------------------------------------------------------------------
\* process_snapshot_file and update_google_sheet

\* process_snapshot_file reads the payload file and calls update_google_sheet.
process_snapshot_file ==
    /\ pc = "process_file"
    /\ UNCHANGED <<sheetVars, submitVars, batchVars, pendingVars, formatVars>>
    /\ pc' = "merge_open"
    /\ recIdx' = 0
    /\ retries' = 0
    /\ mergedThisRun' = mergedThisRun \cup {snapshot_id}
    /\ lastOp' = NoOp
    /\ UNCHANGED <<is_company, jobs, files, loopVars, listed, interrupted>>

\* Mutant: the exception handler records the snapshot as updated.
merge_returns_on_error_marked ==
    /\ pc' = "similar"
    /\ lastOp' = Op("merge_error")
    /\ updatedFile' = [updatedFile EXCEPT ![is_company] = @ \cup {snapshot_id}]
    /\ UNCHANGED <<recIdx, retries>>

\* Mutant: the exception handler waits and retries after any error.
merge_returns_on_error_retried ==
    /\ pc' = "quota_wait"
    /\ lastOp' = Op("merge_error")
    /\ UNCHANGED <<updatedFile, recIdx, retries>>

\* The exception handler of update_google_sheet for an error that is not
\* "Quota exceeded": the call returns.
merge_returns_on_error ==
    /\ pc' = "similar"
    /\ lastOp' = Op("merge_error")
    /\ UNCHANGED <<updatedFile, recIdx, retries>>

\* The exception handler for "Quota exceeded": sleep(60), then the call of
\* update_google_sheet again.
merge_quota_exceeded ==
    /\ retries < MaxRetries
    /\ pc' = "quota_wait"
    /\ lastOp' = Op("quota")
    /\ UNCHANGED <<updatedFile, recIdx, retries>>

\* update_google_sheet, lines 337-346: the worksheet and its values are read.
update_google_sheet_open ==
    /\ pc = "merge_open"
    /\ UNCHANGED <<sheetVars, submitVars, batchVars, pendingVars, formatVars>>
    /\ \/ /\ pc' = "merge_rec"
          /\ recIdx' = 0
          /\ lastOp' = NoOp
          /\ UNCHANGED <<updatedFile, retries>>
       \/ merge_quota_exceeded
       \/ merge_returns_on_error
    /\ UNCHANGED <<is_company, jobs, processedFile, payloadFiles, loopVars,
                   listed, mergedThisRun, interrupted>>

\* One record of "for data in snapshot_data": its row is found and its cells
\* are written, or it is skipped (no row, no url), or a sheet call raises.
update_google_sheet_record ==
    /\ pc = "merge_rec"
    /\ UNCHANGED <<sheetVars, submitVars, batchVars, pendingVars, formatVars>>
    /\ recIdx < PayloadLen
    /\ \/ /\ recIdx' = recIdx + 1
          /\ pc' = "merge_rec"
          /\ lastOp' = Op("write")
          /\ UNCHANGED <<updatedFile, retries>>
       \/ /\ recIdx' = recIdx + 1
          /\ pc' = "merge_rec"
          /\ lastOp' = Op("skip")
          /\ UNCHANGED <<updatedFile, retries>>
       \/ merge_quota_exceeded
       \/ merge_returns_on_error
    /\ UNCHANGED <<is_company, jobs, processedFile, payloadFiles, loopVars,
                   listed, mergedThisRun, interrupted>>

\* Lines 489-492: load_updated_snapshots, add, save_updated_snapshots.
mark_updated ==
    /\ pc = "merge_rec"
    /\ UNCHANGED <<sheetVars, submitVars, batchVars, pendingVars, formatVars>>
    /\ recIdx = PayloadLen
    /\ updatedFile' = [updatedFile EXCEPT ![is_company] = @ \cup {snapshot_id}]
    /\ pc' = "similar"
    /\ lastOp' = Op("mark_updated")
    /\ UNCHANGED <<is_company, jobs, processedFile, payloadFiles, loopVars,
                   mergeVars, listed, mergedThisRun, interrupted>>

\* Lines 497-499: after the wait, the whole merge is called again.
retry_update_google_sheet ==
    /\ pc = "quota_wait"
    /\ UNCHANGED <<sheetVars, submitVars, batchVars, pendingVars, formatVars>>
    /\ retries' = retries + 1
    /\ recIdx' = 0
    /\ pc' = "merge_open"
    /\ lastOp' = NoOp
    /\ UNCHANGED <<is_company, jobs, files, loopVars, listed, mergedThisRun,
                   interrupted>>

\* process_snapshot_file: update_similar_profiles / update_similar_companies,
\* which catch every exception of their own.
update_similar ==
    /\ pc = "similar"
    /\ UNCHANGED <<sheetVars, submitVars, batchVars, pendingVars, formatVars>>
    /\ pc' = "add_processed"
    /\ lastOp' = NoOp
    /\ UNCHANGED <<is_company, jobs, files, loopVars, mergeVars, listed,
                   mergedThisRun, interrupted>>

----------------------------------------------------------------------------
\* The process's environment

\* The payload of the job at hand is on disk and its merge has not returned.
InMerge == pc \in {"process_file", "merge_open", "merge_rec", "quota_wait"}

\* The process is killed (a signal, a KeyboardInterrupt, which "except
\* Exception" does not catch) at any point.
Kill ==
    /\ pc # "ended"
    /\ UNCHANGED <<sheetVars, submitVars, batchVars, pendingVars, formatVars>>
    /\ interrupted' = IF InMerge
                      THEN interrupted \cup {snapshot_id}
                      ELSE interrupted
    /\ ProcessEnds
    /\ lastOp' = [op |-> "kill", company |-> FALSE, id |-> 0]
    /\ UNCHANGED <<jobs, files, listed, mergedThisRun>>

\* The program is started again.
Restart ==
    /\ pc = "ended"
    /\ UNCHANGED <<sheetVars, submitVars, batchVars, pendingVars, formatVars>>
    /\ pc' = "main"
    /\ listed' = FALSE
    /\ mergedThisRun' = {}
    /\ lastOp' = NoOp
    /\ UNCHANGED <<is_company, jobs, files, loopVars, mergeVars, interrupted>>

\* The job service finishes a running job: it becomes ready, or ends in
\* another status.
job_finishes ==
    \E id \in JobIds :
        /\ jobs[id].status = "running"
        /\ \/ jobs' = [jobs EXCEPT ![id].status = "ready"]
           \/ jobs' = [jobs EXCEPT ![id].status = "failed"]
        /\ UNCHANGED <<pc, is_company, files, loopVars, mergeVars, listed,
                       mergedThisRun, lastOp, interrupted, sheetVars,
                       submitVars, batchVars, pendingVars, formatVars>>

ProgramStep ==
    \/ read_profile_links
    \/ process_links_with_bright_data
    \/ read_google_sheet
    \/ company_poll_returns
    \/ update_lead_scores
    \/ load_processed_snapshots
    \/ get_snapshots
    \/ wait_no_snapshots
    \/ wait_no_new_snapshots
    \/ wait_no_ready_snapshots
    \/ begin_ready_snapshots
    \/ next_ready_snapshot
    \/ download_snapshot
    \/ add_processed
    \/ save_processed_snapshots
    \/ after_ready_snapshots
    \/ process_snapshot_file
    \/ update_google_sheet_open
    \/ update_google_sheet_record
    \/ mark_updated
    \/ retry_update_google_sheet
    \/ update_similar

Next ==
    \/ ProgramStep
    \/ Kill
    \/ Restart
    \/ job_finishes

Spec == Init /\ [][Next]_vars

\* A listing call that the job service answers with status 200.
listing_succeeds ==
    /\ get_snapshots
    /\ pc' = "filter"
    /\ snapshots' = Listing(is_company)

\* The program, while it lives, keeps taking steps, and the job service does
\* not fail every listing call for ever.
FairSpec == Spec /\ WF_vars(ProgramStep) /\ SF_vars(listing_succeeds)

\* FairSpec, and a program that has ended is started again.
RecoverSpec == FairSpec /\ WF_vars(Restart)

----------------------------------------------------------------------------
\* MergeSpec: update_google_sheet, call after call, on the worksheet's cells.

ProfileUrl(who) == <<"https://www.linkedin.com/in", "/", who>>
CompanyUrl(slug) == CompanyUrlBase \o <<slug>>

\* What the job service returns for profiles.  A record echoes the submitted
\* cell of the link column as input_url, whatever text that cell held.
ProfileRecords ==
    { << <<"input_url", Str(ProfileUrl("jane"))>>,
         <<"position", Str(<<"CEO">>)>>,
         <<"name", Str(<<"Jane", " ", "Q.", " ", "Public">>)>> >>,
      << <<"input_url", Str(ProfileUrl("raj"))>>,
         <<"url", Str(ProfileUrl("raj"))>>,
         <<"followers", Str(<<"500">>)>>,
         <<"position", Null>>,
         <<"similar_profiles",
           List(<< Dict(<< <<"url", Str(ProfileUrl("zed"))>> >>) >>)>> >>,
      << <<"input_url", Str(ProfileUrl("jane"))>>,
         <<"current_company",
           Dict(<< <<"name", Str(<<"Acme">>)>>,
                   <<"company_id", Str(<<"123">>)>>,
                   <<"link", Str(CompanyUrl("acme") \o <<"?", "trk">>)>> >>)>> >>,
      << <<"input_url", Str(column_with_links)>>,
         <<"position", Str(<<"CEO">>)>> >>,
      << <<"input_url", Str(ProfileUrl("jane") \o <<"/">>)>>,
         <<"position", Str(<<"CFO">>)>> >>,
      << <<"position", Str(<<"COO">>)>> >> }

\* What the job service returns for companies.
CompanyRecords ==
    { << <<"input", Dict(<< <<"url", Str(CompanyUrl("acme"))>> >>)>>,
         <<"website", Str(<<"acme.com">>)>>,
         <<"name", Str(<<"Acme">>)>> >>,
      << <<"input", Dict(<< <<"url",
                             Str(CompanyUrl("123") \o <<"/", "?", "trk">>)>> >>)>>,
         <<"name", Str(<<"Acme">>)>>,
         <<"website", Null>> >>,
      << <<"input", Dict(<< <<"url", Str(CompanyUrl("zeta"))>> >>)>>,
         <<"name", Str(<<"Zeta">>)>> >>,
      << <<"name", Str(<<"Nameless">>)>> >> }

RECURSIVE SeqsUpTo(_, _)
SeqsUpTo(S, n) ==
    IF n = 0 THEN {<<>>}
    ELSE LET shorter == SeqsUpTo(S, n - 1)
         IN shorter \cup {Append(q, x) : q \in shorter, x \in S}

\* The payloads of a kind: one record up to PayloadLen records.
Payloads(company) ==
    SeqsUpTo(IF company THEN CompanyRecords ELSE ProfileRecords, PayloadLen)
        \ {<<>>}

\* The worksheets a run starts from: the link column alone, or with a
\* current_company column an earlier run has filled; the link column holds a
\* profile URL per row, or the header's text once more in a data row.
InitSheets ==
    { << <<column_with_links>>,
         <<ProfileUrl("jane")>>,
         <<ProfileUrl("raj")>> >>,
      << <<column_with_links>>,
         <<ProfileUrl("jane")>>,
         <<column_with_links>> >>,
      << <<column_with_links, <<"current_company">> >>,
         <<ProfileUrl("jane"),
           <<"name", ":", " ", "Acme", " ", "|", " ", "link", ":", " ">>
               \o CompanyUrl("acme") \o <<"/">> >>,
         <<ProfileUrl("raj"),
           <<"company_id", ":", " ", "123">> >> >> }

MergeInit ==
    /\ LifeInit
    /\ sheet \in InitSheets
    /\ resolutions = {}
    /\ similar_sheets = [k \in Kinds |-> <<>>]

\* update_google_sheet(snapshot_data, snapshot_id, is_company), run to its
\* end with no error of the sheet service.
update_google_sheet(snapshot_data, company) ==
    /\ pc = "main"
    /\ \E res \in {merge(sheet, snapshot_data, company)} :
       /\ Width(res.sheet) <= MaxCols
       /\ sheet' = get_all_values(res.sheet)
       /\ resolutions' = resolutions \cup
              {<<res.resolved[i].field, res.resolved[i].col>> :
                   i \in 1..Len(res.resolved)}
       /\ \E id \in JobIds :
             updatedFile' =
                 IF res.raised THEN updatedFile
                 ELSE [updatedFile EXCEPT ![company] = @ \cup {id}]
       /\ UNCHANGED <<pc, is_company, jobs, processedFile, payloadFiles,
                      loopVars, mergeVars, listed, mergedThisRun, lastOp,
                      interrupted, similar_sheets, submitVars, batchVars, pendingVars, formatVars>>

merge_profile_snapshot ==
    \E snapshot_data \in Payloads(FALSE) :
        update_google_sheet(snapshot_data, FALSE)

merge_company_snapshot ==
    \E snapshot_data \in Payloads(TRUE) :
        update_google_sheet(snapshot_data, TRUE)

\* What the completion call may answer for a row.
Completions ==
    { <<"1", "2">>, <<"7", ".", "5">>, <<" ", "0">>, <<"-", "3">>,
      <<"a", "b", "c">>, <<"nan">>, CompletionError }

\* update_lead_scores on the worksheet, the last step of a run.
score_all ==
    /\ pc = "main"
    /\ \E completions \in [2..Len(sheet) -> Completions], deleted \in BOOLEAN :
          \E res \in {lead_scores(sheet, completions, deleted)} :
              sheet' = get_all_values(res.sheet)
    /\ pc' = "ended"
    /\ lastOp' = [op |-> "score", company |-> FALSE, id |-> 0]
    /\ UNCHANGED <<is_company, jobs, files, loopVars, mergeVars, listed,
                   mergedThisRun, interrupted, resolutions, similar_sheets,
                   submitVars, batchVars, pendingVars, formatVars>>

MergeNext ==
    \/ merge_profile_snapshot
    \/ merge_company_snapshot
    \/ score_all

MergeSpec == MergeInit /\ [][MergeNext]_vars

----------------------------------------------------------------------------
\* SimilarSpec: the satellite worksheets, call after call.

Stub(url, name) == Dict(<< <<"url", Str(url)>>, <<"name", Str(name)>> >>)
CompanyStub(links, title) ==
    Dict(<< <<"Links", Str(links)>>, <<"title", Str(title)>>,
            <<"subtitle", Str(<<"Software">>)>> >>)

\* Profile records with discovered profiles: a URL twice in one list, in two
\* lists of one record, in two records; a stub with no url; a record with no
\* input_url.
SimilarProfileRecords ==
    { << <<"input_url", Str(ProfileUrl("jane"))>>,
         <<"similar_profiles",
           List(<<Stub(ProfileUrl("zed"), <<"Zed">>),
                  Stub(ProfileUrl("amy"), <<"Amy">>)>>)>>,
         <<"people_also_viewed",
           List(<<Stub(ProfileUrl("zed"), <<"Zed">>),
                  Stub(ProfileUrl("bob"), <<"Bob">>)>>)>> >>,
      << <<"input_url", Str(ProfileUrl("raj"))>>,
         <<"similar_profiles",
           List(<<Stub(ProfileUrl("amy"), <<"Amy">>),
                  Stub(ProfileUrl("amy"), <<"Amy", " ", "A.">>)>>)>> >>,
      << <<"input_url", Str(ProfileUrl("raj"))>>,
         <<"people_also_viewed",
           List(<<Stub(ProfileUrl("bob"), <<"Bob">>),
                  Dict(<< <<"name", Str(<<"Nobody">>)>> >>)>>)>> >>,
      << <<"similar_profiles",
           List(<<Stub(ProfileUrl("cal"), <<"Cal">>)>>)>> >> }

\* Company records with similar companies: a URL twice up to its query string
\* and trailing slash, an empty URL, a record with no list.
SimilarCompanyRecords ==
    { << <<"name", Str(<<"Acme">>)>>,
         <<"similar",
           List(<<CompanyStub(CompanyUrl("zeta") \o <<"?", "trk">>, <<"Zeta">>),
                  CompanyStub(CompanyUrl("zeta") \o <<"/">>, <<"Zeta">>)>>)>> >>,
      << <<"name", Str(<<"Zeta">>)>>,
         <<"similar",
           List(<<CompanyStub(CompanyUrl("acme"), <<"Acme">>),
                  CompanyStub(EmptyStr, <<"Nameless">>)>>)>> >>,
      << <<"name", Str(<<"Beta">>)>>,
         <<"similar",
           List(<<CompanyStub(CompanyUrl("beta"), <<"Beta">>),
                  CompanyStub(CompanyUrl("zeta"), <<"Zeta", " ", "Inc">>)>>)>> >>,
      << <<"name", Str(<<"Alone">>)>> >> }

SimilarPayloads(company) ==
    SeqsUpTo(IF company THEN SimilarCompanyRecords ELSE SimilarProfileRecords,
             PayloadLen) \ {<<>>}

\* The satellite worksheets a run starts from: missing, with headers only,
\* or with a row an earlier run has added.
InitSimilarSheets ==
    [Kinds -> {<<>>}]
    \cup {[k \in Kinds |-> IF k THEN <<similar_companies_headers>>
                            ELSE <<similar_leads_headers>>]}
    \cup {[k \in Kinds |->
              IF k THEN <<similar_companies_headers,
                          <<CompanyUrl("acme"), <<"Acme">>, EmptyStr, EmptyStr>>>>
              ELSE <<similar_leads_headers,
                     <<ProfileUrl("amy"), <<"Amy">>>>>>]}

SimilarInit ==
    /\ LifeInit
    /\ sheet = <<<<column_with_links>>>>
    /\ resolutions = {}
    /\ similar_sheets \in InitSimilarSheets

add_similar_profiles ==
    \E snapshot_data \in SimilarPayloads(FALSE) :
        /\ similar_sheets' =
               [similar_sheets EXCEPT
                   ![FALSE] = update_similar_profiles(@, snapshot_data)]
        /\ UNCHANGED <<lifeVars, sheet, resolutions, submitVars, batchVars, pendingVars, formatVars>>

add_similar_companies ==
    \E snapshot_data \in SimilarPayloads(TRUE) :
        /\ similar_sheets' =
               [similar_sheets EXCEPT
                   ![TRUE] = update_similar_companies(@, snapshot_data)]
        /\ UNCHANGED <<lifeVars, sheet, resolutions, submitVars, batchVars, pendingVars, formatVars>>

SimilarNext ==
    \/ add_similar_profiles
    \/ add_similar_companies

SimilarSpec == SimilarInit /\ [][SimilarNext]_vars

----------------------------------------------------------------------------
\* ScoreSpec: update_lead_scores on worksheets that have, or lack, a
\* lead_score column.

\* The header rows a run may find: no lead_score column, or one that is the
\* second, the first, or a later column.
ScoreHeaders ==
    { << column_with_links, <<"position">>, <<"about">> >>,
      << column_with_links, lead_score, <<"position">>, <<"about">> >>,
      << lead_score, column_with_links, <<"position">> >>,
      << column_with_links, <<"position">>, lead_score >>,
      << column_with_links, <<"about">>, <<"position">>, lead_score >> }

\* What a data row may hold under position, about and lead_score.
LeadRows ==
    { [position |-> p, about |-> a, lead_score |-> sc] :
          p \in {EmptyStr, <<"CEO">>},
          a \in {EmptyStr, <<"founder">>},
          sc \in {EmptyStr, <<"7">>} }

\* The cell of a lead under a header.
lead_cell(lead, url, header) ==
    CASE header = column_with_links -> url
      [] header = <<"position">> -> lead.position
      [] header = <<"about">> -> lead.about
      [] header = lead_score -> lead.lead_score

\* The worksheet with that header row and one row per lead.
lead_sheet(headers, first, second) ==
    << headers,
       [c \in 1..Len(headers) |->
           lead_cell(first, ProfileUrl("jane"), headers[c])],
       [c \in 1..Len(headers) |->
           lead_cell(second, ProfileUrl("raj"), headers[c])] >>

ScoreSheets ==
    { lead_sheet(headers, first, second) :
          headers \in ScoreHeaders, first \in LeadRows, second \in LeadRows }

ScoreInit ==
    /\ LifeInit
    /\ sheet \in ScoreSheets
    /\ resolutions = {}
    /\ similar_sheets = [k \in Kinds |-> <<>>]

ScoreSpec == ScoreInit /\ [][score_all]_vars

----------------------------------------------------------------------------
\* SubmitSpec: process_links_with_bright_data, lines 124-201.

\* Chunks that clean_links is split into.
MaxChunks == 2

max_retries == 3
base_delay == 5

RECURSIVE Pow2(_)
Pow2(n) == IF n = 0 THEN 1 ELSE 2 * Pow2(n - 1)

\* "delay = base_delay * (2 ** retry_count)"
backoff_delay_fixed(count) == base_delay

backoff_delay(count) == base_delay * Pow2(count)

\* The calls the submission makes: requests.post for chunk i, answered by a
\* status code (0: the request raised), and time.sleep(seconds).
Post(i, status) == [e |-> "post", chunk |-> i, n |-> status]
Sleep(i, seconds) == [e |-> "sleep", chunk |-> i, n |-> seconds]

\* What a request may be answered with: 200, another status, an exception.
PostOutcomes == {200, 500, 0}

SubmitInit ==
    /\ LifeInit
    /\ sheet = <<<<column_with_links>>>>
    /\ resolutions = {}
    /\ similar_sheets = [k \in Kinds |-> <<>>]

\* Lines 133-165: clean_links, the dataset id, and chunk_list(clean_links,
\* chunk_size); the for loop is at its first chunk, or there is none.
chunk_list ==
    /\ pc = "submit"
    /\ \/ /\ \E n \in 0..MaxChunks :
                /\ chunks' = n
                /\ chunk_i' = IF n = 0 THEN 0 ELSE 1
                /\ pc' = IF n = 0 THEN "load" ELSE "post"
          /\ lastOp' = NoOp
          /\ UNCHANGED <<is_company, loopVars, mergeVars>>
       \/ /\ dataset_id_absent
          /\ UNCHANGED <<chunks, chunk_i>>
    /\ retry_count' = 0
    /\ submitted' = <<>>
    /\ UNCHANGED <<jobs, files, listed, mergedThisRun, interrupted,
                   sheetVars, batchVars, pendingVars, formatVars>>

\* The job service after it has accepted a chunk: a new running job (the
\* model holds no more than MaxJobs jobs).
accept_chunk ==
    IF \A id \in JobIds : jobs[id] # NoJob THEN jobs
    ELSE [jobs EXCEPT ![Min({id \in JobIds : jobs[id] = NoJob})] =
             [status |-> "running", company |-> is_company]]

\* Lines 167-195: one pass of "while retry_count < max_retries".  Status 200
\* breaks out of the loop; another status, or an exception of the request,
\* waits backoff_delay(retry_count) unless this was the last attempt, and
\* counts the attempt.
requests_post ==
    /\ pc = "post"
    /\ retry_count < max_retries
    /\ \E status \in PostOutcomes :
          IF status = 200
          THEN /\ submitted' = Append(submitted, Post(chunk_i, status))
               /\ jobs' = accept_chunk
               /\ retry_count' = retry_count
               /\ pc' = "chunk_done"
          ELSE /\ submitted' =
                      Append(submitted, Post(chunk_i, status)) \o
                      (IF retry_count < max_retries - 1
                       THEN <<Sleep(chunk_i, backoff_delay(retry_count))>>
                       ELSE <<>>)
               /\ jobs' = jobs
               /\ retry_count' = retry_count + 1
               /\ pc' = IF retry_count + 1 < max_retries
                         THEN "post" ELSE "chunk_done"
    /\ lastOp' = NoOp
    /\ UNCHANGED <<is_company, files, loopVars, mergeVars, listed,
                   mergedThisRun, interrupted, sheetVars, chunks, chunk_i,
                   batchVars, pendingVars, formatVars>>

\* Lines 197-201: the warning after max_retries attempts, time.sleep(5), and
\* the next chunk; after the last chunk the function returns.
next_chunk ==
    /\ pc = "chunk_done"
    /\ submitted' = Append(submitted, Sleep(chunk_i, 5))
    /\ retry_count' = 0
    /\ IF chunk_i < chunks
       THEN /\ chunk_i' = chunk_i + 1
            /\ pc' = "post"
       ELSE /\ chunk_i' = 0
            /\ pc' = "load"
    /\ lastOp' = NoOp
    /\ UNCHANGED <<is_company, jobs, files, loopVars, mergeVars, listed,
                   mergedThisRun, interrupted, sheetVars, chunks, batchVars, pendingVars, formatVars>>

SubmitNext ==
    \/ read_profile_links
    \/ chunk_list
    \/ requests_post
    \/ next_chunk

SubmitSpec == SubmitInit /\ [][SubmitNext]_vars

----------------------------------------------------------------------------
\* BatchSpec: the writes of update_google_sheet, lines 441-485, call by call.
\* A record is seen as the number of fields it keeps; each field finds its
\* column or has it created.

\* Fields a record may keep: two full batches and one cell more.
MaxFields == 101

\* Line 27, and line 26 in tenths of a second.
BATCH_SIZE == 50
SHEETS_UPDATE_DELAY == 11

\* Mutant: a batch is sent once it is longer than BATCH_SIZE.
batch_full_late(n) == n > BATCH_SIZE

\* Line 477: "len(cell_updates) >= BATCH_SIZE"
batch_full(n) == n >= BATCH_SIZE

\* The calls made, each after the call in batch.last.
worksheet_update_cell ==
    [call |-> "update_cell", n |-> 1, odd |-> ~batch.last.odd]
worksheet_batch_update(n) ==
    [call |-> "batch_update", n |-> n, odd |-> ~batch.last.odd]
time_sleep(tenths) ==
    [call |-> "sleep", n |-> tenths, odd |-> ~batch.last.odd]

\* What the steps of a merge leave alone.
batch_frame == UNCHANGED <<lifeVars, sheetVars, submitVars, pendingVars, formatVars>>

\* Lines 337-346: the worksheet is opened and read; snapshot_data holds up to
\* PayloadLen records.
open_worksheet ==
    /\ batch.pc = "idle"
    /\ \E n \in 0..PayloadLen :
          batch' = [batch EXCEPT !.pc = "record", !.records = n]
    /\ batch_frame

\* Lines 349-438: "for data in snapshot_data".  A record with no row is
\* passed over (continue); one with a row has its fields collected.  After
\* the last record the call goes on to mark the job (line 489).
next_record ==
    /\ batch.pc = "record"
    /\ IF batch.records = 0
       THEN batch' = [batch EXCEPT !.pc = "done"]
       ELSE \/ batch' = [batch EXCEPT !.records = @ - 1]
            \/ \E n \in 0..MaxFields :
                  batch' = [batch EXCEPT !.records = @ - 1, !.fields = n,
                                         !.update_data = 0, !.pc = "resolve"]
    /\ batch_frame

\* Lines 441-466, one field: its column is found, or is added and its header
\* written (lines 447-449, 460-462).
resolve_field ==
    /\ batch.pc = "resolve"
    /\ batch.fields > 0
    /\ \/ batch' = [batch EXCEPT !.fields = @ - 1, !.update_data = @ + 1]
       \/ batch' = [batch EXCEPT !.pc = "created",
                                 !.last = worksheet_update_cell]
    /\ batch_frame

\* Lines 450-453, 463-466: the delay after the header write, and the cell of
\* the new column joins update_data.
column_created ==
    /\ batch.pc = "created"
    /\ batch' = [batch EXCEPT !.pc = "resolve",
                              !.fields = @ - 1, !.update_data = @ + 1,
                              !.last = time_sleep(SHEETS_UPDATE_DELAY)]
    /\ batch_frame

\* Line 469: "cell_updates = []", before the loop over update_data.
begin_batches ==
    /\ batch.pc = "resolve"
    /\ batch.fields = 0
    /\ batch' = [batch EXCEPT !.pc = "append", !.pending = batch.update_data,
                              !.cell_updates = 0]
    /\ batch_frame

\* Lines 470-479: a cell is appended, and a full batch is sent.
append_cell ==
    /\ batch.pc = "append"
    /\ batch.pending > 0
    /\ IF batch_full(batch.cell_updates + 1)
       THEN batch' = [batch EXCEPT
                         !.pending = @ - 1, !.cell_updates = 0,
                         !.pc = "flushed",
                         !.last = worksheet_batch_update(
                                      batch.cell_updates + 1)]
       ELSE batch' = [batch EXCEPT !.pending = @ - 1,
                                   !.cell_updates = @ + 1]
    /\ batch_frame

\* Line 480: the delay between batches.
batch_delay ==
    /\ batch.pc = "flushed"
    /\ batch' = [batch EXCEPT !.pc = "append",
                              !.last = time_sleep(SHEETS_UPDATE_DELAY)]
    /\ batch_frame

\* Lines 483-484: "if cell_updates:", the cells that remain are sent.
remaining_cells ==
    /\ batch.pc = "append"
    /\ batch.pending = 0
    /\ IF batch.cell_updates > 0
       THEN batch' = [batch EXCEPT
                         !.pc = "final", !.cell_updates = 0,
                         !.last = worksheet_batch_update(batch.cell_updates)]
       ELSE batch' = [batch EXCEPT !.pc = "record"]
    /\ batch_frame

\* Line 485: the delay after the final batch.
final_delay ==
    /\ batch.pc = "final"
    /\ batch' = [batch EXCEPT !.pc = "record",
                              !.last = time_sleep(SHEETS_UPDATE_DELAY)]
    /\ batch_frame

BatchNext ==
    \/ open_worksheet
    \/ next_record
    \/ resolve_field
    \/ column_created
    \/ begin_batches
    \/ append_cell
    \/ batch_delay
    \/ remaining_cells
    \/ final_delay

BatchSpec == Init /\ [][BatchNext]_vars

----------------------------------------------------------------------------
\* PendingSpec: process_pending_updates, lines 585-618, run on the state
\* files and payload directories a killed run can leave.  (No function of
\* the program calls it; it is run here on its own.)

\* os.path.join(PROFILE_SAVE_DIR or COMPANY_SAVE_DIR, filename)
FilePath(k, id) == [dir |-> k, id |-> id]

\* os.listdir gives the files of a directory in an order of its own.
Orders(S) ==
    {o \in [1..Cardinality(S) -> S] :
        \A i, j \in 1..Cardinality(S) : o[i] = o[j] => i = j}

\* A payload file is in the directory of its dataset; a state file names
\* only jobs whose payload was downloaded.
PendingInit ==
    /\ pc = "pending_scan"
    /\ is_company = FALSE
    /\ payloadFiles \in {pf \in [Kinds -> SUBSET JobIds] :
                            pf[FALSE] \cap pf[TRUE] = {}}
    /\ processedFile \in {f \in [Kinds -> SUBSET JobIds] :
                             \A k \in Kinds : f[k] \subseteq payloadFiles[k]}
    /\ updatedFile \in {f \in [Kinds -> SUBSET JobIds] :
                           \A k \in Kinds : f[k] \subseteq payloadFiles[k]}
    /\ jobs = [id \in JobIds |->
                 IF \E k \in Kinds : id \in payloadFiles[k]
                 THEN [status |-> "ready", company |-> id \in payloadFiles[TRUE]]
                 ELSE NoJob]
    /\ processed_snapshots = {}
    /\ snapshots = <<>>
    /\ ready_snapshots = <<>>
    /\ running_snapshots = {}
    /\ snapshot_id = 0
    /\ recIdx = 0
    /\ retries = 0
    /\ listed = FALSE
    /\ mergedThisRun = {}
    /\ lastOp = NoOp
    /\ interrupted = {}
    /\ chunks = 0
    /\ chunk_i = 0
    /\ retry_count = 0
    /\ submitted = <<>>
    /\ batch = NoBatch
    /\ pending_snapshots = <<>>
    /\ json_value = Null
    /\ formatted_value = NotFormatted
    /\ sheet = <<<<column_with_links>>>>
    /\ resolutions = {}
    /\ similar_sheets = [k \in Kinds |-> <<>>]

\* Lines 590-611: the two state sets are loaded with is_company=False, and
\* each directory is listed; a file is pending when its id is in that
\* processed set and not in that updated set.
process_pending_updates ==
    /\ pc = "pending_scan"
    /\ LET processed == processedFile[FALSE]
           updated == updatedFile[FALSE]
           pending(k) == {id \in payloadFiles[k] :
                             id \in processed /\ id \notin updated}
       IN \E p \in Orders(pending(FALSE)), c \in Orders(pending(TRUE)) :
             pending_snapshots' =
                 [i \in 1..Len(p) |-> FilePath(FALSE, p[i])] \o
                 [i \in 1..Len(c) |-> FilePath(TRUE, c[i])]
    /\ pc' = "pending_for"
    /\ lastOp' = [op |-> "pending_scan", company |-> FALSE, id |-> 0]
    /\ UNCHANGED <<is_company, jobs, files, loopVars, mergeVars, listed,
                   mergedThisRun, interrupted, sheetVars, submitVars,
                   batchVars, formatVars>>

\* Lines 613-617: process_snapshot_file(file_path), whose is_company is left
\* at its default False: the payload is merged by update_google_sheet in
\* profile mode, which adds the id to the profile updated set unless the
\* sheet service raised (lines 489-499).
process_pending_snapshot ==
    /\ pc = "pending_for"
    /\ pending_snapshots # <<>>
    /\ LET file_path == Head(pending_snapshots)
       IN /\ snapshot_id' = file_path.id
          /\ is_company' = FALSE
          /\ mergedThisRun' = mergedThisRun \cup {file_path.id}
          /\ lastOp' = [op |-> "pending_merge", company |-> FALSE,
                        id |-> file_path.id]
          /\ \/ updatedFile' = [updatedFile EXCEPT
                                   ![FALSE] = @ \cup {file_path.id}]
             \/ updatedFile' = updatedFile
    /\ pending_snapshots' = Tail(pending_snapshots)
    /\ pc' = "pending_for"
    /\ UNCHANGED <<jobs, processedFile, payloadFiles, processed_snapshots,
                   snapshots, ready_snapshots, running_snapshots, mergeVars,
                   listed, interrupted, sheetVars, submitVars, batchVars,
                   formatVars>>

\* Line 618: the pass is over.
pending_updates_return ==
    /\ pc = "pending_for"
    /\ pending_snapshots = <<>>
    /\ ProcessEnds
    /\ lastOp' = NoOp
    /\ UNCHANGED <<jobs, files, listed, mergedThisRun, interrupted, sheetVars,
                   submitVars, batchVars, pendingVars, formatVars>>

PendingNext ==
    \/ process_pending_updates
    \/ process_pending_snapshot
    \/ pending_updates_return

PendingSpec == PendingInit /\ [][PendingNext]_vars

----------------------------------------------------------------------------
\* FormatSpec: format_value and format_company_value (lines 53-81, 304-332)
\* applied to the value of a field, and to the text they return.

\* Members of a list or dict of a field value, and of a list or dict nested
\* in one.
MaxItems == 2
MaxInner == 1

\* The keys of a dict of n entries, in the order of the JSON object.
DictKey(i) == IF i = 1 THEN "k1" ELSE IF i = 2 THEN "k2" ELSE "k3"

\* The lists and dicts of up to max members drawn from S.
Nested(S, max) ==
    UNION {{List(items) : items \in [1..n -> S]} \cup
           {Dict([i \in 1..n |-> <<DictKey(i), items[i]>>]) :
              items \in [1..n -> S]} : n \in 0..max}

\* Field values: null, a text, and lists and dicts of these and of lists and
\* dicts of these.
JsonScalars == {Null, Str(<<"a">>)}
JsonValues ==
    JsonScalars
        \cup Nested(JsonScalars \cup Nested(JsonScalars, MaxInner), MaxItems)

format_frame ==
    UNCHANGED <<lifeVars, sheetVars, submitVars, batchVars, pendingVars>>

\* Lines 565-566, 419: the value of a field of a record of the payload.
json_load ==
    /\ json_value = Null
    /\ formatted_value = NotFormatted
    /\ json_value' \in JsonValues
    /\ UNCHANGED formatted_value
    /\ format_frame

\* Line 425: "format_company_value(value) if is_company else
\* format_value(value)".
format_field ==
    /\ formatted_value = NotFormatted
    /\ \E company \in BOOLEAN :
          formatted_value' = IF company THEN format_company_value(json_value)
                             ELSE format_value(json_value)
    /\ UNCHANGED json_value
    /\ format_frame

\* The text that was returned is formatted in its turn.
format_formatted ==
    /\ formatted_value # NotFormatted
    /\ json_value # Str(formatted_value)
    /\ json_value' = Str(formatted_value)
    /\ \E company \in BOOLEAN :
          formatted_value' =
              IF company THEN format_company_value(Str(formatted_value))
              ELSE format_value(Str(formatted_value))
    /\ format_frame

FormatNext ==
    \/ json_load
    \/ format_field
    \/ format_formatted

FormatSpec == Init /\ [][FormatNext]_vars

----------------------------------------------------------------------------
\* LinkSpec: the company links read_google_sheet extracts
\* (GS_enricher_main.py, lines 63-117) and the company merge of the records
\* that come back for them.

\* Lines 93-109: the links of one current_company cell.
cell_links(cell) ==
    LET company_value == Strip(cell)
        parts == Split(company_value, "|")
        Url(raw) ==
            LET part == Strip(raw)
            IN IF StartsWith(part, LinkPrefix)
               THEN {normalize_url(Strip(Remove(part, LinkPrefix)))}
               ELSE IF StartsWith(part, CompanyIdPrefix)
               THEN {CompanyUrlBase \o Strip(Remove(part, CompanyIdPrefix))}
               ELSE {}
    IN IF company_value = EmptyStr THEN {}
       ELSE UNION {Url(parts[i]) : i \in 1..Len(parts)}

\* Lines 72-113: company_links, the set the function returns as a sorted
\* list; [] for a sheet with no data row or no current_company column.
company_links(sh) ==
    LET data == get_all_values(sh)
        headers == data[1]
        company_col == IndexOf(headers, <<"current_company">>)
    IN IF Len(data) < 2 THEN {}
       ELSE IF company_col = 0 THEN {}
       ELSE UNION {cell_links(data[r][company_col]) : r \in 2..Len(data)}

\* Line 133: "[link for link in links if link.strip()]"
clean_links(links) == {link \in links : Strip(link) # EmptyStr}

\* What the job service returns as input.url for a submitted URL: the URL,
\* or the URL with a query string or a trailing slash added.
Returned(url) == {url, url \o <<"?", "trk">>, url \o <<"/">>}

\* The record of a company scraped for input_url.
company_record(input_url) ==
    << <<"input", Dict(<< <<"url", Str(input_url)>> >>)>>,
       <<"name", Str(<<"Acme">>)>> >>

\* current_company cells: links with and without query string and slash,
\* company ids, several segments, none.
LinkCells ==
    { <<"link", ":", " ">> \o CompanyUrl("acme"),
      <<"name", ":", " ", "Acme", " ", "|", " ", "link", ":", " ">>
          \o CompanyUrl("acme") \o <<"/", "?", "trk">>,
      <<"company_id", ":", " ", "123">>,
      <<"company_id", ":", " ", "123", " ", "|", " ", "link", ":", " ">>
          \o CompanyUrl("zeta"),
      <<"company_id", ":", " ", "123", "/">>,
      <<"name", ":", " ", "Acme">>,
      EmptyStr }

LinkSheets ==
    { << <<column_with_links, <<"current_company">> >>,
         <<ProfileUrl("jane"), first>>,
         <<ProfileUrl("raj"), second>> >> :
          first \in LinkCells, second \in LinkCells }

LinkInit ==
    /\ LifeInit
    /\ sheet \in LinkSheets
    /\ resolutions = {}
    /\ similar_sheets = [k \in Kinds |-> <<>>]

\* main, lines 262-275: a link of read_google_sheet is submitted, and the
\* record that comes back for it is merged in company mode.
company_round_trip ==
    \E url \in clean_links(company_links(sheet)) :
        \E input_url \in Returned(url) :
            update_google_sheet(<<company_record(input_url)>>, TRUE)

LinkSpec == LinkInit /\ [][company_round_trip]_vars

----------------------------------------------------------------------------
\* Properties of the snapshot lifecycle

\* C1: for each entity kind, in every reachable state of the persisted state
\* sets, every job id in `updated` is also in `processed`.
C1_UpdatedSubsetProcessed ==
    \A k \in Kinds : updatedFile[k] \subseteq processedFile[k]

\* C2: a job whose process was killed after its payload was written and
\* before its merge had finished is not fetched from the job service again.
C2_NoFetchAfterInterruptedMerge ==
    lastOp.op = "fetch" => lastOp.id \notin interrupted

\* A job whose payload is on disk, in `processed` and not in `updated`.
Pending(k) == (processedFile[k] \cap payloadFiles[k]) \ updatedFile[k]

\* C3: at the first listing call of a run, every pending job has been handed
\* to the merge in that run.
C3_PendingMergedBeforeFirstListing ==
    [][(~listed /\ listed') =>
          \A k \in Kinds : Pending(k) \subseteq mergedThisRun]_vars

\* C4: once a job id is in `updated`, no merge of that job's payload writes
\* cells to the main sheet.
C4_NoWriteOnceUpdated ==
    lastOp.op = "write" => lastOp.id \notin updatedFile[lastOp.company]

\* C6: when a poll loop exits normally, its last listing holds no running job
\* and every ready job of that listing is in `processed`.
C6_ExitOnlyWhenDrained ==
    pc = "poll_done" =>
        \A i \in 1..Len(snapshots) :
            /\ snapshots[i].status # "running"
            /\ snapshots[i].status = "ready" =>
                   snapshots[i].id \in processedFile[is_company]

\* The process is inside a poll loop.
InPollLoop ==
    pc \in {"list", "filter", "for", "download", "process_file", "merge_open",
            "merge_rec", "quota_wait", "similar", "add_processed",
            "save_processed"}

\* The job service holds jobs of the polled dataset, none of them running,
\* and every ready one is in the loop's processed set.
Drained ==
    /\ \E id \in JobIds :
          jobs[id].status # "none" /\ jobs[id].company = is_company
    /\ \A id \in JobIds :
          (jobs[id].status # "none" /\ jobs[id].company = is_company) =>
              /\ jobs[id].status # "running"
              /\ jobs[id].status = "ready" => id \in processed_snapshots

\* C7: once the job service reports no running job and every ready job is in
\* `processed`, the poll loop eventually exits.
C7_PollLoopTerminates ==
    []((InPollLoop /\ Drained) => <>(~InPollLoop))

\* C8: a job id enters `updated` only at the end of a merge call that handled
\* every record of the payload without a raised error; a merge call that ends
\* through an exception leaves `updated` as it was.
C8_UpdatedOnlyAfterFullMerge ==
    [][/\ \A k \in Kinds :
             updatedFile'[k] # updatedFile[k] =>
                 /\ pc = "merge_rec"
                 /\ recIdx = PayloadLen
                 /\ k = is_company
                 /\ updatedFile'[k] = updatedFile[k] \cup {snapshot_id}
                 /\ lastOp'.op = "mark_updated"
       /\ lastOp'.op \in {"merge_error", "quota"} =>
             updatedFile' = updatedFile]_vars

\* A merge that met a quota error, was retried and then recorded its job.
C8_Witness ==
    /\ lastOp.op = "mark_updated"
    /\ retries > 0
    /\ recIdx = PayloadLen
    /\ snapshot_id \in updatedFile[is_company]

\* C9: a job id is in `processed` (persisted) before the first sheet write of
\* its merge, and only jobs whose download succeeded are in `processed`.
C9_ProcessedBeforeFirstWrite ==
    /\ lastOp.op = "write" => lastOp.id \in processedFile[lastOp.company]
    /\ \A k \in Kinds : processedFile[k] \subseteq payloadFiles[k]

----------------------------------------------------------------------------
\* Properties of update_google_sheet on the worksheet

\* C5: merging the same payload for the same job id twice in succession
\* leaves the header row, every data cell and the `updated` set as they were
\* after the first merge.
C5_MergeIdempotent ==
    \A company \in Kinds, id \in JobIds :
      \A snapshot_data \in Payloads(company) :
        \A once \in {merge(sheet, snapshot_data, company)} :
            \A twice \in {merge(get_all_values(once.sheet), snapshot_data,
                                company)} :
                /\ get_all_values(twice.sheet) = get_all_values(once.sheet)
                /\ (~once.raised /\ ~twice.raised) =>
                       (updatedFile[company] \cup {id}) \cup {id}
                           = updatedFile[company] \cup {id}

\* C10: within a run a field name resolves to one column index only, and a
\* column index is resolved for one field name only.
C10_ResolutionStable ==
    \A a \in resolutions, b \in resolutions :
        /\ a[1] = b[1] => a[2] = b[2]
        /\ a[2] = b[2] => a[1] = b[1]

\* C11: a column that exists keeps its index and its header for the rest of
\* the run, through merging and scoring: a new column is placed after every
\* existing one, and no existing column is moved or deleted.
C11_ColumnsKeepTheirIndex ==
    [][\A c \in 1..Width(sheet) :
           sheet[1][c] # EmptyStr =>
               /\ c <= Width(sheet')
               /\ sheet'[1][c] = sheet[1][c]]_vars

\* The column names of a record's fields in the order of the kind's priority
\* table: the keys of the table by ascending priority number, then the other
\* keys as the record lists them.
TableOrder(data, company) ==
    LET kept == SelectSeq(data, LAMBDA kv : kv[1] \notin SkippedKeys)
        keys == [i \in 1..Len(kept) |-> <<<<kept[i][1]>>, kept[i][1]>>]
        listed_keys == SelectSeq(keys, LAMBDA k :
                                     k[2] \in DOMAIN column_order(company))
        other_keys == SelectSeq(keys, LAMBDA k :
                                    k[2] \notin DOMAIN column_order(company))
        order == sort_by_priority(listed_keys, company) \o other_keys
    IN [i \in 1..Len(order) |-> field_name(order[i][2], company)]

\* C12: the fields of one record, of either kind, are resolved in the order
\* of the kind's priority table: its keys by ascending priority number, then
\* the other fields in encounter order.
C12_FieldsResolvedInTableOrder ==
    \A company \in Kinds :
        \A data \in (IF company THEN CompanyRecords ELSE ProfileRecords) :
            \A res \in {merge(sheet, <<data>>, company)} :
                res.written # <<>> =>
                    [i \in 1..Len(res.resolved) |-> res.resolved[i].field]
                        = TableOrder(data, company)

\* A URL without its query string and trailing slash.
WithoutQueryAndSlash(url) == RStrip(BeforeFirst(url, "?"), "/")

\* What follows the prefix of a segment that begins with it.
AfterPrefix(segment, prefix) ==
    Strip(SubSeq(segment, Len(prefix) + 1, Len(segment)))

\* A pipe-delimited segment of a current_company cell that stands for the
\* company URL target: "link:" and a URL, or "company_id:" and an id.
SegmentNames(segment, target) ==
    \/ /\ StartsWith(segment, <<"link", ":">>)
       /\ WithoutQueryAndSlash(AfterPrefix(segment, <<"link", ":">>)) = target
    \/ /\ StartsWith(segment, <<"company_id", ":">>)
       /\ <<"https://www.linkedin.com/company", "/">>
              \o AfterPrefix(segment, <<"company_id", ":">>) = target

\* The data rows whose current_company cell has a segment for target.
RowsNaming(target) ==
    LET col == IndexOf(sheet[1], <<"current_company">>)
    IN IF col = 0 THEN {}
       ELSE {r \in 2..Len(sheet) :
                \E segment \in Range(Split(sheet[r][col], "|")) :
                    SegmentNames(Strip(segment), target)}

\* The company records that carry an input.url.
WithInputUrl(records) ==
    {data \in records :
        /\ Get(data, "input")[1] = "dict"
        /\ Get(Get(data, "input")[2], "url")[1] = "str"}

InputUrl(data) == Get(Get(data, "input")[2], "url")[2]

\* C13: in company mode the record is merged into the first data row whose
\* current_company cell has a link: or company_id: segment for the normalized
\* input.url, and into no row when no row has such a segment.
C13_CompanyRowIsFirstMatch ==
    \A data \in WithInputUrl(CompanyRecords) :
        \A rows \in {RowsNaming(WithoutQueryAndSlash(InputUrl(data)))} :
            \A res \in {merge(sheet, <<data>>, TRUE)} :
                res.written = IF rows = {} THEN <<>> ELSE <<Min(rows)>>

\* Company merges have filled a row found through a link: segment and a row
\* found through a company_id: segment, and one company is named by two rows.
C13_Witness ==
    /\ \E c \in 1..Width(sheet) :
          /\ Len(sheet[1][c]) = 2 /\ sheet[1][c][1] = "enriched_"
          /\ sheet[2][c] # EmptyStr
          /\ sheet[3][c] # EmptyStr
    /\ \E data \in WithInputUrl(CompanyRecords) :
          Cardinality(RowsNaming(WithoutQueryAndSlash(InputUrl(data)))) = 2

\* The profile records that carry a non-empty input_url.
WithInputUrlText(records) ==
    {data \in records :
        /\ Get(data, "input_url")[1] = "str"
        /\ Get(data, "input_url")[2] # EmptyStr}

\* The rows whose cell of the link column is the text url.
RowsHolding(url) ==
    LET col == IndexOf(sheet[1], column_with_links)
    IN {r \in 1..Len(sheet) : sheet[r][col] = url}

\* C14: in profile mode the record is merged into the first row whose cell
\* of the link column equals input_url as a string, and into no row when no
\* cell equals it.
C14_ProfileRowIsExactMatch ==
    \A data \in WithInputUrlText(ProfileRecords) :
        \A rows \in {RowsHolding(Get(data, "input_url")[2])} :
            \A res \in {merge(sheet, <<data>>, FALSE)} :
                res.written = IF rows = {} THEN <<>> ELSE <<Min(rows)>>

\* A profile record has been merged into the row of its URL, and another
\* record's input_url differs from a cell of the link column by a trailing
\* slash only.
C14_Witness ==
    /\ \E c \in 1..Width(sheet) :
          sheet[1][c] = <<"position">> /\ sheet[2][c] = <<"CEO">>
    /\ \E data \in WithInputUrlText(ProfileRecords) :
          /\ RowsHolding(Get(data, "input_url")[2]) = {}
          /\ RowsHolding(RStrip(Get(data, "input_url")[2], "/")) # {}

\* The records of a kind.
Records(company) == IF company THEN CompanyRecords ELSE ProfileRecords

\* No row of the worksheet is the row of the record.
NoRow(data, company) ==
    IF company
    THEN \/ data \notin WithInputUrl(CompanyRecords)
         \/ RowsNaming(WithoutQueryAndSlash(InputUrl(data))) = {}
    ELSE \/ data \notin WithInputUrlText(ProfileRecords)
         \/ RowsHolding(Get(data, "input_url")[2]) = {}

\* C15: a record that has no row writes no cell, creates no column and does
\* not raise, and the records after it in the payload are merged as they are
\* without it.
C15_MissingRowIsSkipped ==
    \A company \in Kinds :
        \A missing \in {data \in Records(company) : NoRow(data, company)} :
            /\ \A alone \in {merge(sheet, <<missing>>, company)} :
                   /\ alone.sheet = get_all_values(sheet)
                   /\ alone.resolved = <<>>
                   /\ alone.written = <<>>
                   /\ ~alone.raised
            /\ \A next \in Records(company) :
                   \A both \in {merge(sheet, <<missing, next>>, company)} :
                       \A later \in {merge(sheet, <<next>>, company)} :
                           /\ both.sheet = later.sheet
                           /\ both.written = later.written
                           /\ ~both.raised

\* A profile record and a company record that have no row are each followed
\* in a payload by a record that is written to its row.
C15_Witness ==
    \A company \in Kinds :
        \E missing \in Records(company), next \in Records(company) :
            /\ NoRow(missing, company)
            /\ ~NoRow(next, company)
            /\ merge(sheet, <<missing, next>>, company).written # <<>>
            /\ merge(sheet, <<missing, next>>, company).sheet
                   # get_all_values(sheet)

\* The column names of the linkage and volume fields of a record, and of the
\* name of a profile.
LinkageColumns ==
    {<<"input_url">>, <<"url">>, <<"similar_profiles">>,
     <<"people_also_viewed">>, <<"name">>}

\* C16: no merge resolves (creates a column for, or writes a cell of) one of
\* the fields input_url, url, similar_profiles, people_also_viewed, nor the
\* name of a profile record.
C16_NoLinkageColumns ==
    \A resolution \in resolutions : resolution[1] \notin LinkageColumns

\* The cell of row r under the header name in the worksheet sh, the empty
\* text when no column has that header.
CellUnder(sh, r, name) ==
    IF IndexOf(sh[1], name) = 0 THEN EmptyStr ELSE sh[r][IndexOf(sh[1], name)]

\* What follows the first space of a text.
AfterFirst(s, sep) ==
    IF IndexOf(s, sep) = 0 THEN EmptyStr
    ELSE SubSeq(s, IndexOf(s, sep) + 1, Len(s))

\* C17: after a profile record with a name is merged, its row holds
\* first_name, the part of the name before the first space, and last_name,
\* the rest after that space.
C17_NameIsSplit ==
    \A data \in {d \in ProfileRecords :
                     Get(d, "name")[1] = "str" /\ ~NoRow(d, FALSE)} :
        \A res \in {merge(sheet, <<data>>, FALSE)} :
            \A r \in Range(res.written) :
                /\ CellUnder(res.sheet, r, <<"first_name">>)
                       = BeforeFirst(Get(data, "name")[2], " ")
                /\ CellUnder(res.sheet, r, <<"last_name">>)
                       = AfterFirst(Get(data, "name")[2], " ")

\* The header begins with "enriched_".
IsEnriched(header) == Len(header) >= 1 /\ header[1] = "enriched_"

\* C18: every column a company merge creates or writes into has a header
\* that begins with "enriched_", and the merge leaves every cell of every
\* other column as it was.
C18_CompanyMergeWritesEnrichedOnly ==
    \A snapshot_data \in Payloads(TRUE) :
        \A before \in {get_all_values(sheet)} :
            \A res \in {merge(sheet, snapshot_data, TRUE)} :
                /\ \A i \in 1..Len(res.resolved) :
                       /\ IsEnriched(res.resolved[i].field)
                       /\ IsEnriched(res.sheet[1][res.resolved[i].col])
                /\ \A c \in 1..Width(res.sheet) :
                       IF c <= Width(before) /\ ~IsEnriched(before[1][c])
                       THEN \A r \in 1..Len(before) :
                                res.sheet[r][c] = before[r][c]
                       ELSE IsEnriched(res.sheet[1][c])

\* A company merge has written a row that also holds profile data.
C18_Witness ==
    /\ \E c \in 1..Width(sheet) :
          IsEnriched(sheet[1][c]) /\ sheet[2][c] # EmptyStr
    /\ CellUnder(sheet, 2, <<"input_url">>) # EmptyStr

----------------------------------------------------------------------------
\* Properties of the satellite worksheets

\* No URL is in the first column of two data rows of the worksheet.
NoDuplicateUrls(ws) ==
    \A i \in 2..Len(ws), j \in 2..Len(ws) : i # j => ws[i][1] # ws[j][1]

\* The URLs in the first column of the data rows.
UrlsOf(ws) == {ws[r][1] : r \in 2..Len(ws)}

\* The URLs of the discovered-entity stubs of a payload: of the profiles that
\* carry an input_url, the url of every similar profile and person also
\* viewed; of the companies, the link of every similar company without its
\* query string and trailing slash.
StubUrls(snapshot_data, company) ==
    LET UrlsIn(list, key) ==
            {text_of(Get(items_of(list)[i][2], key)) :
                 i \in 1..Len(items_of(list))}
        OfRecord(data) ==
            IF company
            THEN {WithoutQueryAndSlash(u) :
                      u \in UrlsIn(Get(data, "similar"), "Links")}
            ELSE IF text_of(Get(data, "input_url")) = EmptyStr THEN {}
            ELSE UrlsIn(Get(data, "similar_profiles"), "url")
                     \cup UrlsIn(Get(data, "people_also_viewed"), "url")
    IN UNION {OfRecord(snapshot_data[i]) : i \in 1..Len(snapshot_data)}
           \ {EmptyStr}

\* C19: a stub whose URL is in the first column of the satellite worksheet,
\* or is the URL of an earlier stub of the payload, is not appended: the
\* worksheet has no URL twice, and after a call it holds its old rows and
\* each new URL of the payload once.
C19_StubsDeduplicated ==
    \A company \in Kinds :
        /\ NoDuplicateUrls(similar_sheets[company])
        /\ \A snapshot_data \in SimilarPayloads(company) :
               \A ws \in {similar_sheets[company]} :
                   \A after \in {IF company
                                  THEN update_similar_companies(ws, snapshot_data)
                                  ELSE update_similar_profiles(ws, snapshot_data)} :
                       /\ NoDuplicateUrls(after)
                       /\ UrlsOf(after)
                              = UrlsOf(ws) \cup StubUrls(snapshot_data, company)
                       /\ SubSeq(after, 2, Len(ws)) = SubSeq(ws, 2, Len(ws))

\* Both satellite worksheets have had rows appended, the profile one from a
\* payload in which a URL comes twice.
C19_Witness ==
    /\ Len(similar_sheets[FALSE]) >= 4
    /\ Len(similar_sheets[TRUE]) >= 3
    /\ \E r \in 2..Len(similar_sheets[FALSE]) :
          similar_sheets[FALSE][r][1] = ProfileUrl("zed")

----------------------------------------------------------------------------
\* Properties of score_lead

\* The float lies in [0, 10].
InScoreRange(score) ==
    /\ score.k = "finite"
    /\ score.num >= 0
    /\ score.num <= 10 * score.den

\* C20: the score returned for a row of the worksheet is within [0, 10]
\* whatever the completion call answers, and a reply that does not parse as
\* a number, or an error of the completion call, gives 0.
C20_ScoreWithinRange ==
    \A row \in 2..Len(sheet) :
        \A completion \in Completions :
            \A score \in {score_lead(completion)} :
                /\ InScoreRange(score)
                /\ (completion = CompletionError
                        \/ float(completion) = ValueError)
                       => score = Finite(0, 1)

----------------------------------------------------------------------------
\* Properties of update_lead_scores

\* The score a row holds: its cell under the lead_score header, '' when the
\* worksheet has no such column.
ScoreOf(sh, r) ==
    IF lead_score \in Range(sh[1]) THEN CellUnder(sh, r, lead_score)
    ELSE EmptyStr

\* The row's own six rubric fields, each read under its own header.
OwnFields(sh, r) ==
    [f \in 1..Len(LEAD_SCORING_fields) |->
        IF LEAD_SCORING_fields[f] \in Range(sh[1])
        THEN CellUnder(sh, r, LEAD_SCORING_fields[f])
        ELSE EmptyStr]

\* The outcomes of the completion calls of one run, one per row.
RunCompletions == [2..Len(sheet) -> Completions]

\* C21: when update_lead_scores ends without error, every data row whose
\* score cell was empty at the start was scored by exactly one completion
\* call, built from the row's own six rubric fields, and got exactly one
\* score written, which its cell of the lead_score column then holds.
C21_EveryUnscoredRowIsScored ==
    pc = "main" =>
        \A completions \in RunCompletions, deleted \in BOOLEAN :
            \A res \in {lead_scores(sheet, completions, deleted)} :
                ~res.raised =>
                    \A r \in 2..Len(sheet) :
                        ScoreOf(sheet, r) = EmptyStr =>
                            /\ \E k \in 1..Len(res.calls) :
                                   /\ res.calls[k].row = r
                                   /\ res.calls[k].prompt = OwnFields(sheet, r)
                                   /\ \A j \in 1..Len(res.calls) :
                                          res.calls[j].row = r => j = k
                            /\ Cardinality({k \in 1..Len(res.written) :
                                                res.written[k] = r}) = 1
                            /\ ScoreOf(res.sheet, r) # EmptyStr

\* C22: update_lead_scores leaves every row that already has a score as it
\* is: no completion call is made for the row, and the row's score is the
\* same after the run as before, also when the lead_score column is moved
\* to the second position.
C22_ScoredRowsUntouched ==
    pc = "main" =>
        \A completions \in RunCompletions, deleted \in BOOLEAN :
            \A res \in {lead_scores(sheet, completions, deleted)} :
                \A r \in 2..Len(sheet) :
                    ScoreOf(sheet, r) # EmptyStr =>
                        /\ \A k \in 1..Len(res.calls) : res.calls[k].row # r
                        /\ \E c \in 1..Width(res.sheet) :
                               /\ res.sheet[1][c] = lead_score
                               /\ res.sheet[r][c] = ScoreOf(sheet, r)

\* C23: after the lead_score column is ensured (the step has not raised),
\* wherever the column was at the start (first, second, later, absent),
\* the header of column 2 is lead_score, no other column has that header,
\* and every score of the run is written to column 2.
C23_ScoreColumnIsSecond ==
    pc = "main" =>
        \A completions \in RunCompletions, deleted \in BOOLEAN :
            \A res \in {lead_scores(sheet, completions, deleted)},
               ensured \in {ensure_lead_score_column(sheet, sheet[1], deleted)} :
                ~ensured.raised =>
                    /\ Width(ensured.sheet) >= 2
                    /\ \A c \in 1..Width(ensured.sheet) :
                           ensured.sheet[1][c] = lead_score <=> c = 2
                    /\ \A k \in 1..Len(res.written) :
                           res.sheet[res.written[k]][2] =
                               score_cell(score_lead(
                                   completions[res.written[k]]))

----------------------------------------------------------------------------
\* Properties of the error handling

\* C24: a "Quota exceeded" error during a merge call is followed by one wait
\* and one retry of the whole merge from its first record, so that for one
\* call of process_snapshot_file the merge is attempted at most twice,
\* however many quota errors occur.
C24_MergeAttemptedAtMostTwice ==
    /\ retries + 1 <= 2
    /\ pc = "merge_open" => recIdx = 0

\* C30: a sheet error during a merge that is not "Quota exceeded" makes the
\* merge call return to process_snapshot_file: nothing is raised, nothing is
\* retried, `updated` is left as it was, and the for loop keeps its place,
\* with the jobs still to visit unchanged.
C30_MergeErrorReturns ==
    [][(pc \in {"merge_open", "merge_rec"} /\ lastOp'.op = "merge_error") =>
           /\ pc' = "similar"
           /\ retries' = retries
           /\ updatedFile' = updatedFile
           /\ snapshot_id' = snapshot_id
           /\ ready_snapshots' = ready_snapshots]_vars

\* The merge of a job has returned on a sheet error, the job is not in
\* `updated`, and another ready job waits in the list.
C30_Witness ==
    /\ lastOp.op = "merge_error"
    /\ pc = "similar"
    /\ snapshot_id \notin updatedFile[is_company]
    /\ ready_snapshots # <<>>

\* The positions in submitted of the requests made for chunk c.
PostsOf(c) ==
    {k \in 1..Len(submitted) :
        submitted[k].e = "post" /\ submitted[k].chunk = c}

\* The number of the attempt made at position k, among those of its chunk.
AttemptAt(k) ==
    Cardinality({j \in PostsOf(submitted[k].chunk) : j <= k})

\* C25: a chunk of URLs is submitted at most 3 times; no attempt follows an
\* accepted one; the wait right before attempt 2 is 5 seconds and the wait
\* right before attempt 3 is 10 seconds, each after a failed attempt; and
\* when the submission has returned, every chunk has been submitted, also
\* those that follow a chunk whose 3 attempts all failed.
C25_SubmissionRetries ==
    /\ submitted # <<>> => pc # "ended"
    /\ \A c \in 1..chunks :
          /\ Cardinality(PostsOf(c)) <= 3
          /\ \A k \in PostsOf(c) :
                /\ submitted[k].n = 200 => \A j \in PostsOf(c) : j <= k
                /\ AttemptAt(k) >= 2 =>
                       /\ submitted[k - 1] =
                              Sleep(c, IF AttemptAt(k) = 2 THEN 5 ELSE 10)
                       /\ k - 2 \in PostsOf(c)
                       /\ submitted[k - 2].n # 200
          /\ pc = "load" => PostsOf(c) # {}

\* A submission of two chunks has returned: the three attempts of the first
\* chunk failed, the second chunk was accepted at its second attempt.
C25_Witness ==
    /\ pc = "load"
    /\ chunks = 2
    /\ Cardinality(PostsOf(1)) = 3
    /\ \A k \in PostsOf(1) : submitted[k].n # 200
    /\ Cardinality(PostsOf(2)) = 2
    /\ \E k \in PostsOf(2) : submitted[k].n = 200

----------------------------------------------------------------------------
\* Properties of recovery

\* A step of update_google_sheet in which a call of the sheet service raises.
sheet_error ==
    /\ update_google_sheet_open \/ update_google_sheet_record
    /\ lastOp'.op \in {"merge_error", "quota"}

\* A step in which a request to the job service fails: a download that does
\* not give the payload, a listing that does not give the jobs.
request_error ==
    \/ download_snapshot /\ pc' # "process_file"
    \/ get_snapshots /\ ~listing_succeeds

\* C26: provided the sheet errors, the failed requests and the kills stop at
\* some point (and a program that has ended is started again, RecoverSpec),
\* every job whose payload was downloaded is eventually in `updated`, and no
\* job stays in `processed` for ever without being in `updated`.
C26_DownloadedJobsEventuallyUpdated ==
    <>[][~sheet_error /\ ~request_error /\ ~Kill]_vars =>
        \A k \in Kinds, id \in JobIds :
            [](id \in payloadFiles[k] \cup processedFile[k] =>
                   <>(id \in updatedFile[k]))

----------------------------------------------------------------------------
\* Properties of the order of the run

\* C27: when update_lead_scores starts, no poll loop is running and every
\* job that a poll loop of this run found ready and passed to the merge is
\* in `updated`: the scoring runs over a fully merged sheet.
C27_ScoringAfterFullMerge ==
    pc = "score" =>
        /\ ~InPollLoop
        /\ \A id \in mergedThisRun : id \in updatedFile[jobs[id].company]

\* The for loop over ready_snapshots is running, and it is at a job that is
\* not yet in processed_snapshots.
InForLoop ==
    pc \in {"for", "download", "process_file", "merge_open", "merge_rec",
            "quota_wait", "similar", "add_processed", "save_processed"}
AtJob == InForLoop /\ pc \notin {"for", "save_processed"}

IsSuffix(s, t) ==
    /\ Len(s) <= Len(t)
    /\ s = SubSeq(t, Len(t) - Len(s) + 1, Len(t))

\* C28: within one poll iteration the ready, unprocessed jobs are taken in
\* the order of the listing (the job at hand and the jobs still to visit
\* are the tail of the listing's ready, unprocessed jobs), and when the
\* download of a job begins, the merge of every job taken before it in this
\* run has returned (its id is in the loop's processed set).
C28_ReadyJobsInListingOrder ==
    /\ InForLoop =>
           IsSuffix(IF AtJob THEN <<snapshot_id>> \o ready_snapshots
                    ELSE ready_snapshots,
                    ready_now)
    /\ pc = "download" =>
           \A id \in mergedThisRun :
               jobs[id].company = is_company => id \in processed_snapshots

\* The first of two ready jobs of one listing is being merged while the
\* second waits in the list.
C28_Witness ==
    /\ pc = "merge_rec"
    /\ snapshot_id = 1
    /\ ready_snapshots = <<2>>
    /\ ready_now = <<1, 2>>

----------------------------------------------------------------------------
\* Properties of the configuration checks

\* C29 as stated: a missing dataset id, a missing link column and a missing
\* current_company column each raise and end the run: once one of them has
\* been detected, the run has ended, and so submits, downloads, merges and
\* scores nothing more.
C29_MissingConfigurationAborts ==
    lastOp.op \in {"missing_dataset_id", "missing_link_column",
                   "missing_company_column"} => pc = "ended"

\* C29 as amended: a missing dataset id and a missing link column raise and
\* end the run at once, leaving the job service untouched by the step; a
\* missing current_company column does not: read_google_sheet returns no
\* link and the run goes on to the scoring.
C29_MissingIdOrLinkColumnAborts ==
    /\ lastOp.op \in {"missing_dataset_id", "missing_link_column"} =>
           pc = "ended"
    /\ lastOp.op = "missing_company_column" => pc = "score"

\* A run has ended on a missing dataset id while a job submitted by an
\* earlier run is still with the job service.
C29_Witness ==
    /\ lastOp.op = "missing_dataset_id"
    /\ pc = "ended"
    /\ \E id \in JobIds : jobs[id].status \in {"running", "ready"}

----------------------------------------------------------------------------
\* Properties of the writes of a merge (BatchSpec)

\* A call that writes to the worksheet.
IsWrite(c) == c.call \in {"update_cell", "batch_update"}

\* C31: every batch write carries at least 1 and at most 50 cells, and
\* every batch write and every header write of a column creation is followed
\* by a rate-limit delay before the merge issues its next write: a step that
\* issues a write comes after no call at all or after a sleep of a positive
\* time.
C31_BatchesBoundedAndDelayed ==
    [][ /\ batch'.last.call = "batch_update"
            => batch'.last.n >= 1 /\ batch'.last.n <= 50
        /\ IsWrite(batch'.last) /\ batch'.last.odd # batch.last.odd
            => \/ batch.last.call = "none"
               \/ batch.last.call = "sleep" /\ batch.last.n > 0 ]_vars

\* A second full batch has been sent after a delay, with a record still to
\* come and cells still to write.
C31_Witness ==
    /\ batch.pc = "flushed"
    /\ batch.last = [call |-> "batch_update", n |-> 50, odd |-> TRUE]
    /\ batch.update_data = 101
    /\ batch.pending = 1
    /\ batch.records > 0

----------------------------------------------------------------------------
\* Properties of the persisted state sets, continued (Spec)

\* C32: the persisted processed set is rewritten immediately after each id
\* is added.  At every point of a poll loop the persisted set of the polled
\* dataset is a subset of the loop's in-memory set and lacks at most one id
\* of it, and the two differ only between the add and the save that follows
\* it.
C32_ProcessedSavedAfterEachAdd ==
    InPollLoop =>
        /\ processedFile[is_company] \subseteq processed_snapshots
        /\ Cardinality(processed_snapshots \ processedFile[is_company]) <= 1
        /\ processedFile[is_company] # processed_snapshots
              => pc = "save_processed"

\* A second id has been added in one for loop: the first is in the file
\* already, the second is not yet.
C32_Witness ==
    /\ pc = "save_processed"
    /\ processedFile[is_company] # {}
    /\ processed_snapshots \ processedFile[is_company] = {snapshot_id}
    /\ lastOp = NoOp

----------------------------------------------------------------------------
\* Properties of the pending-updates pass (PendingSpec)

\* C33: state is kept per entity kind in the pending-updates pass.  A
\* company payload is pending exactly when its id is in the company
\* processed set and not in the company updated set; it is merged in company
\* mode; its completion is recorded in the company updated set only; the
\* profile sets are neither read nor changed for it.
C33_PendingPassPerKind ==
    [][ /\ lastOp'.op = "pending_scan" =>
              \A id \in payloadFiles[TRUE] :
                  (\E i \in DOMAIN pending_snapshots' :
                       pending_snapshots'[i] = FilePath(TRUE, id))
                  <=> id \in processedFile[TRUE] \ updatedFile[TRUE]
        /\ lastOp'.op = "pending_merge" /\ pending_snapshots # <<>>
              /\ Head(pending_snapshots).dir = TRUE =>
              /\ lastOp'.company = TRUE
              /\ processedFile' = processedFile
              /\ updatedFile'[FALSE] = updatedFile[FALSE]
              /\ updatedFile'[TRUE] \subseteq
                     updatedFile[TRUE] \cup {Head(pending_snapshots).id} ]_vars

----------------------------------------------------------------------------
\* Properties of format_value (FormatSpec)

\* C34: format is idempotent.  Formatting a plain string returns it
\* unchanged, formatting null returns the empty string, and formatting the
\* text that format returned for any nested value returns that text again.
C34_FormatIdempotent ==
    [][ /\ formatted_value' # NotFormatted /\ json_value'[1] = "str"
            => formatted_value' = json_value'[2]
        /\ formatted_value' # NotFormatted /\ json_value' = Null
            => formatted_value' = EmptyStr
        /\ formatted_value # NotFormatted
              /\ json_value' = Str(formatted_value)
            => formatted_value' = formatted_value ]_vars

\* The text made of a dict that holds a list and a dict has been formatted
\* again.
C34_Witness ==
    /\ json_value = Str(formatted_value)
    /\ formatted_value = <<"k1", ":", " ", "a", " ", "|", " ",
                           "k2", ":", " ", "k1", ":", " ", "a">>

\* "k1: v1 | k2: v2" with every vi the formatted nested value.
RenderedDict(pairs) ==
    Join([i \in 1..Len(pairs) |->
             <<pairs[i][1], ":", " ">> \o format_value(pairs[i][2])],
         <<" ", "|", " ">>)

\* C35: when format renders a dict, at top level or as an element of a list,
\* as "k1: v1 | k2: v2", every vi is format applied to the nested value, for
\* every kind of nested value: a nested list or dict is flattened and a
\* nested null is rendered as the empty string.
C35_DictValuesFormatted ==
    formatted_value # NotFormatted =>
        /\ json_value[1] = "dict"
              => formatted_value = RenderedDict(json_value[2])
        /\ json_value[1] = "list"
              => formatted_value =
                     Join([i \in 1..Len(json_value[2]) |->
                              IF json_value[2][i][1] = "dict"
                              THEN RenderedDict(json_value[2][i][2])
                              ELSE py_str(json_value[2][i])],
                          <<",", " ">>)

----------------------------------------------------------------------------
\* Properties of the merge, continued (MergeSpec)

\* C36: merge writes record data only to data rows.  The row selected for a
\* record, in profile mode and in company mode, has index 2 or greater, for
\* every value of input_url, one equal to the link column's header text
\* included; so the cells of a record never land in row 1.
C36_RecordsWrittenToDataRows ==
    \A company \in Kinds :
      \A data \in Records(company) :
        \A target \in {IF company
                       THEN find_company_row(get_all_values(sheet),
                                             get_all_values(sheet)[1], data)
                       ELSE find_profile_row(get_all_values(sheet),
                                             get_all_values(sheet)[1], data)} :
            /\ target.found = "row" => target.row >= 2
            /\ \A written \in {merge(sheet, <<data>>, company).written} :
                  \A i \in 1..Len(written) : written[i] >= 2

----------------------------------------------------------------------------
\* Properties of company link extraction and matching (LinkSpec)

\* C37: company link extraction and company row matching agree.  For every
\* URL that read_google_sheet extracts from the current_company column for
\* submission, a company record that comes back with that URL as input.url,
\* with or without an added query string or trailing slash, is matched to a
\* row of the sheet whose current_company cell produced that URL.
C37_ExtractionAndMatchingAgree ==
    \A url \in clean_links(company_links(sheet)) :
      \A input_url \in Returned(url) :
        \A target \in {find_company_row(get_all_values(sheet),
                                        get_all_values(sheet)[1],
                                        company_record(input_url))} :
            /\ target.found = "row"
            /\ url \in cell_links(
                   sheet[target.row][IndexOf(sheet[1], <<"current_company">>)])
====
